---- MODULE Spec2Model ----
(***************************************************************************)
(* A model of the pure-Python JSON codec of Lib/json: the decoder          *)
(* (decoder.py, scanner.py) and the encoder (encoder.py).                  *)
(*                                                                         *)
(* Text is a sequence of code points (naturals), so that ord/chr, the      *)
(* \uXXXX escapes and surrogate pairs are arithmetic, not identities.      *)
(* Offsets are Python's: 0-based, s[i] is the TLA+ element s[i+1].         *)
(***************************************************************************)
EXTENDS Integers, Sequences, FiniteSets, TLC

VARIABLES
    suite,              \* which family of documents the caller composes
    doc,                \* the text the caller has composed so far
    npieces,            \* number of pieces the caller has put into doc
    strict,             \* JSONDecoder.strict
    object_hook,        \* JSONDecoder.object_hook
    object_pairs_hook,  \* JSONDecoder.object_pairs_hook
    memo,               \* JSONDecoder.memo: the decoded keys interned so far
    memo_at_call,       \* what memo held when the last top-level call began
    call,               \* the last top-level call: its name and arguments
    outcome,            \* what the last top-level call returned or raised
    heap,               \* the lists, dicts and other objects the caller made
    encoder,            \* the JSONEncoder: its attributes
    target,             \* the value the caller asked the encoder for
    gen,                \* the generator iterencode returned
    stream,             \* the chunks the caller has got from the generator
    encoded             \* what encode returned or raised

dvars == <<suite, doc, npieces, strict, object_hook, object_pairs_hook,
           memo, memo_at_call, call, outcome>>

evars == <<heap, encoder, target, gen, stream, encoded>>

vars == <<dvars, evars>>

----------------------------------------------------------------------------
(* Characters the code tests for, by code point. *)

QUOTE == 34
BSLASH == 92
SLASH == 47
LBRACE == 123
RBRACE == 125
LBRACKET == 91
RBRACKET == 93
COLON == 58
COMMA == 44
MINUS == 45
PLUS == 43
DOT == 46
SPACE == 32
TAB == 9
LF == 10
CR == 13
BS == 8
FF == 12
UNDERSCORE == 95
CH_0 == 48
CH_1 == 49
CH_9 == 57
CH_a == 97
CH_b == 98
CH_e == 101
CH_f == 102
CH_n == 110
CH_r == 114
CH_t == 116
CH_u == 117
CH_x == 120
CH_A == 65
CH_E == 69
CH_F == 70
CH_I == 73
CH_N == 78
CH_X == 88

KW_null == <<110, 117, 108, 108>>
KW_true == <<116, 114, 117, 101>>
KW_false == <<102, 97, 108, 115, 101>>
KW_NaN == <<78, 97, 78>>
KW_Infinity == <<73, 110, 102, 105, 110, 105, 116, 121>>
KW_NegInfinity == <<45>> \o KW_Infinity
KW_OF == [n \in {"NaN", "Infinity", "-Infinity"} |->
             CASE n = "NaN" -> KW_NaN
               [] n = "Infinity" -> KW_Infinity
               [] n = "-Infinity" -> KW_NegInfinity]

Min(a, b) == IF a < b THEN a ELSE b
Max(a, b) == IF a < b THEN b ELSE a

----------------------------------------------------------------------------
(* Python's indexing and slicing of a str. *)

\* whether s[i] exists (no IndexError); a negative i counts from the end
HasIndex(s, i) == -Len(s) <= i /\ i < Len(s)

\* s[i], for an i that HasIndex
PyAt(s, i) == IF i < 0 THEN s[Len(s) + i + 1] ELSE s[i + 1]

\* s[a:b]
SliceBound(s, a) == IF a < 0 THEN Max(a + Len(s), 0) ELSE Min(a, Len(s))
PySlice(s, a, b) ==
    IF SliceBound(s, a) >= SliceBound(s, b) THEN <<>>
    ELSE SubSeq(s, SliceBound(s, a) + 1, SliceBound(s, b))

\* the position a compiled pattern's match(s, pos) starts at
MatchPos(s, pos) == IF pos < 0 THEN 0 ELSE Min(pos, Len(s))

----------------------------------------------------------------------------
(* Results of the scanning functions.  Every result carries the memo as    *)
(* the call left it: the memo is a dict the calls mutate in place.         *)

Ok(v, e, m) == [k |-> "ok", value |-> v, end |-> e, memo |-> m]
Stop(i, m) == [k |-> "stop", pos |-> i, memo |-> m]
Err(msg, p, m) == [k |-> "err", msg |-> msg, pos |-> p, memo |-> m]
Crash(what, m) == [k |-> "crash", msg |-> what, memo |-> m]

E_VALUE == "Expecting value"
E_EXTRA == "Extra data"
E_PROPNAME == "Expecting property name enclosed in double quotes"
E_COLON == "Expecting ':' delimiter"
E_COMMA == "Expecting ',' delimiter"
E_UNTERMINATED == "Unterminated string starting at"
E_CONTROL == "Invalid control character at"
E_ESCAPE == "Invalid \\escape"
E_UESCAPE == "Invalid \\uXXXX escape"
E_CHR == "ValueError: chr() arg not in range(0x110000)"

\* the decoded values
VNull == [t |-> "null"]
VBool(b) == [t |-> "bool", v |-> b]
VInt(n) == [t |-> "int", v |-> n]
VStr(cs) == [t |-> "str", v |-> cs]
VArr(vs) == [t |-> "arr", v |-> vs]
VObj(ps) == [t |-> "obj", v |-> ps]
VNonFinite(name) == [t |-> "nonfinite", v |-> name]
\* a finite float: (-1)^neg * m * 10^e, m without trailing zeros
VReal(neg, m, e) == [t |-> "real", neg |-> neg, m |-> m, e |-> e]

----------------------------------------------------------------------------
(* decoder.py: WHITESPACE, STRINGCHUNK, BACKSLASH, _decode_uXXXX,          *)
(* py_scanstring.                                                          *)

WHITESPACE_STR == {SPACE, TAB, LF, CR}

\* `nextchar in _ws` for a nextchar that is a str of length 0 or 1: the
\* empty str is a substring of every str
InWs(nextchar) == nextchar = <<>> \/ nextchar[1] \in WHITESPACE_STR

RECURSIVE SkipWs(_, _)
SkipWs(s, p) ==
    IF p < Len(s) /\ s[p + 1] \in WHITESPACE_STR THEN SkipWs(s, p + 1) ELSE p

\* WHITESPACE.match(s, end).end()
WsEnd(s, end) == SkipWs(s, MatchPos(s, end))

IsTerminator(c) == c = QUOTE \/ c = BSLASH \/ c \in 0..31

RECURSIVE FindTerminator(_, _)
FindTerminator(s, p) ==
    IF p >= Len(s) THEN -1
    ELSE IF IsTerminator(s[p + 1]) THEN p
    ELSE FindTerminator(s, p + 1)

\* STRINGCHUNK.match(s, end): the offset of the terminator, -1 for no match
StringChunk(s, end) == FindTerminator(s, MatchPos(s, end))

BACKSLASH ==
    (QUOTE :> QUOTE) @@ (BSLASH :> BSLASH) @@ (SLASH :> SLASH) @@
    (CH_b :> BS) @@ (CH_f :> FF) @@ (CH_n :> LF) @@ (CH_r :> CR) @@
    (CH_t :> TAB)

\* a non-ASCII decimal digit block (ARABIC-INDIC DIGIT ZERO..NINE), which
\* int(), float() and the pattern \d accept like 0..9
AI_0 == 1632

IsAsciiDigit(c) == c \in CH_0..CH_9
IsDigit(c) == IsAsciiDigit(c) \/ c \in AI_0..(AI_0 + 9)
DigitVal(c) == IF IsAsciiDigit(c) THEN c - CH_0 ELSE c - AI_0

IsHexDigit(c) == IsDigit(c) \/ c \in CH_a..CH_f \/ c \in CH_A..CH_F
HexVal(c) ==
    IF IsDigit(c) THEN DigitVal(c)
    ELSE IF c \in CH_a..CH_f THEN c - CH_a + 10
    ELSE c - CH_A + 10

\* the whitespace int() strips from both ends
PyIntSpace == {SPACE, TAB, LF, CR, 11, 12, 28, 29, 30, 31}

RECURSIVE LStrip(_)
LStrip(t) == IF t # <<>> /\ t[1] \in PyIntSpace THEN LStrip(Tail(t)) ELSE t

RECURSIVE RStrip(_)
RStrip(t) ==
    IF t # <<>> /\ t[Len(t)] \in PyIntSpace
    THEN RStrip(SubSeq(t, 1, Len(t) - 1)) ELSE t

\* digits with single underscores between them, as int() accepts
HexBody(t) ==
    /\ t # <<>>
    /\ IsHexDigit(t[1])
    /\ IsHexDigit(t[Len(t)])
    /\ \A i \in 1..Len(t) : IsHexDigit(t[i]) \/ t[i] = UNDERSCORE
    /\ \A i \in 1..(Len(t) - 1) : ~(t[i] = UNDERSCORE /\ t[i + 1] = UNDERSCORE)

RECURSIVE HexFold(_, _)
HexFold(t, acc) ==
    IF t = <<>> THEN acc
    ELSE IF t[1] = UNDERSCORE THEN HexFold(Tail(t), acc)
    ELSE HexFold(Tail(t), 16 * acc + HexVal(t[1]))

\* int(esc, 16): [ok |-> FALSE] stands for ValueError.  The text is
\* stripped, then a sign, then a 0x prefix (and one underscore after it),
\* then the digits.
HexAfterPrefix(t) ==
    IF Len(t) >= 2 /\ t[1] = CH_0 /\ t[2] \in {CH_x, CH_X}
    THEN IF Len(t) >= 3 /\ t[3] = UNDERSCORE
         THEN SubSeq(t, 4, Len(t)) ELSE SubSeq(t, 3, Len(t))
    ELSE t

HexMagnitude(t, neg) ==
    IF HexBody(t)
    THEN [ok |-> TRUE, v |-> IF neg THEN -HexFold(t, 0) ELSE HexFold(t, 0)]
    ELSE [ok |-> FALSE, v |-> 0]

HexSigned(t) ==
    IF t # <<>> /\ t[1] \in {PLUS, MINUS}
    THEN HexMagnitude(HexAfterPrefix(Tail(t)), t[1] = MINUS)
    ELSE HexMagnitude(HexAfterPrefix(t), FALSE)

PyIntBase16(esc) == HexSigned(RStrip(LStrip(esc)))

\* the body of _decode_uXXXX on esc = s[pos + 1:pos + 5]
DecodeEsc(esc) ==
    IF Len(esc) = 4 /\ esc[2] \notin {CH_x, CH_X}
    THEN PyIntBase16(esc)
    ELSE [ok |-> FALSE, v |-> 0]

\* _decode_uXXXX(s, pos): [ok |-> FALSE] stands for the JSONDecodeError
\* "Invalid \uXXXX escape" at pos
DecodeUXXXX(s, pos) == DecodeEsc(PySlice(s, pos + 1, pos + 5))

HI_FIRST == 55296
HI_LAST == 56319
LO_FIRST == 56320
LO_LAST == 57343
SUPPLEMENTARY == 65536
MAX_CODE_POINT == 1114111

\* 0x10000 + (((uni - 0xd800) << 10) | (uni2 - 0xdc00)); the right operand
\* of | is below 2^10, so | adds
CombinePair(uni, uni2) == SUPPLEMENTARY + (((uni - HI_FIRST) * 1024) + (uni2 - LO_FIRST))

\* SecondEscape consuming the second escape also when it is no low surrogate
SecondEscape_SkipsUnpaired(uni, u2, end) ==
    IF ~u2.ok THEN [k |-> "err", msg |-> E_UESCAPE, pos |-> end + 1]
    ELSE IF u2.v \in LO_FIRST..LO_LAST
         THEN [k |-> "ok", uni |-> CombinePair(uni, u2.v), end |-> end + 6]
    ELSE [k |-> "ok", uni |-> uni, end |-> end + 6]

\* the \u branch of py_scanstring once a high surrogate uni is followed by
\* "\u": u2 is the second escape decoded, end the offset after the first
SecondEscape(uni, u2, end) ==
    IF ~u2.ok THEN [k |-> "err", msg |-> E_UESCAPE, pos |-> end + 1]
    ELSE IF u2.v \in LO_FIRST..LO_LAST
         THEN [k |-> "ok", uni |-> CombinePair(uni, u2.v), end |-> end + 6]
    ELSE [k |-> "ok", uni |-> uni, end |-> end]

\* the \u branch of py_scanstring after the first escape u1 was decoded at
\* esc, the offset of its "u"
FirstEscape(s, esc, u1) ==
    IF ~u1.ok THEN [k |-> "err", msg |-> E_UESCAPE, pos |-> esc]
    ELSE IF u1.v \in HI_FIRST..HI_LAST
            /\ PySlice(s, esc + 5, esc + 7) = <<BSLASH, CH_u>>
         THEN SecondEscape(u1.v, DecodeUXXXX(s, esc + 6), esc + 5)
    ELSE [k |-> "ok", uni |-> u1.v, end |-> esc + 5]

\* the \u branch of py_scanstring, end at the "u": the code point and the
\* new end, or the error
ScanUnicodeEscape(s, end) == FirstEscape(s, end, DecodeUXXXX(s, end))

RECURSIVE ScanChunks(_, _, _, _, _, _)

\* py_scanstring after a \u escape was scanned: chr(uni) is appended
AppendUnicode(s, isStrict, begin, chunks, m, ue) ==
    IF ue.k = "err" THEN Err(ue.msg, ue.pos, m)
    ELSE IF ue.uni \notin 0..MAX_CODE_POINT THEN Crash(E_CHR, m)
    ELSE ScanChunks(s, ue.end, isStrict, begin, Append(chunks, ue.uni), m)

\* ScanEscape reporting the end of the text when it ends after the backslash
ScanEscape_ErrorAtEnd(s, end, isStrict, begin, chunks, m) ==
    IF ~HasIndex(s, end) THEN Err(E_UNTERMINATED, end, m)
    ELSE IF PyAt(s, end) = CH_u
         THEN AppendUnicode(s, isStrict, begin, chunks, m, ScanUnicodeEscape(s, end))
    ELSE IF PyAt(s, end) \in DOMAIN BACKSLASH
         THEN ScanChunks(s, end + 1, isStrict, begin,
                         Append(chunks, BACKSLASH[PyAt(s, end)]), m)
    ELSE Err(E_ESCAPE, end, m)

\* py_scanstring on a backslash, end the offset after it
ScanEscape(s, end, isStrict, begin, chunks, m) ==
    IF ~HasIndex(s, end) THEN Err(E_UNTERMINATED, begin, m)
    ELSE IF PyAt(s, end) = CH_u
         THEN AppendUnicode(s, isStrict, begin, chunks, m, ScanUnicodeEscape(s, end))
    ELSE IF PyAt(s, end) \in DOMAIN BACKSLASH
         THEN ScanChunks(s, end + 1, isStrict, begin,
                         Append(chunks, BACKSLASH[PyAt(s, end)]), m)
    ELSE Err(E_ESCAPE, end, m)

\* ScanTerminator keeping a control character whatever strict says
ScanTerminator_IgnoresStrict(s, end, isStrict, begin, chunks, terminator, m) ==
    IF terminator = QUOTE THEN Ok(chunks, end, m)
    ELSE IF terminator # BSLASH
         THEN ScanChunks(s, end, isStrict, begin, Append(chunks, terminator), m)
    ELSE ScanEscape(s, end, isStrict, begin, chunks, m)

\* py_scanstring on the terminator of a chunk, end the offset after it
ScanTerminator(s, end, isStrict, begin, chunks, terminator, m) ==
    IF terminator = QUOTE THEN Ok(chunks, end, m)
    ELSE IF terminator # BSLASH THEN
        IF isStrict THEN Err(E_CONTROL, end, m)
        ELSE ScanChunks(s, end, isStrict, begin, Append(chunks, terminator), m)
    ELSE ScanEscape(s, end, isStrict, begin, chunks, m)

\* py_scanstring on the match of STRINGCHUNK that starts at from and has
\* its terminator at t
ScanChunk(s, from, t, isStrict, begin, chunks, m) ==
    IF t = -1 THEN Err(E_UNTERMINATED, begin, m)
    ELSE ScanTerminator(s, t + 1, isStrict, begin,
                        chunks \o PySlice(s, from, t), s[t + 1], m)

\* the while loop of py_scanstring, one iteration per call
ScanChunks(s, end, isStrict, begin, chunks, m) ==
    ScanChunk(s, MatchPos(s, end), StringChunk(s, end), isStrict, begin, chunks, m)

\* py_scanstring(s, end, strict): the decoded text (a sequence of code
\* points) and the offset after the closing quote
ScanString(s, end, isStrict, m) == ScanChunks(s, end, isStrict, end - 1, <<>>, m)

----------------------------------------------------------------------------
(* scanner.py: NUMBER_RE and the int and float the default hooks build.    *)

RECURSIVE DigitsEnd(_, _)
DigitsEnd(s, p) ==
    IF p < Len(s) /\ IsDigit(s[p + 1]) THEN DigitsEnd(s, p + 1) ELSE p

\* NUMBER_RE: (-?(?:0|[1-9]\d*))(\.\d+)?([eE][-+]?\d+)?
\* the end of each part of the pattern tried at offset p, p itself where the
\* part matches nothing ([0-9] is ASCII, \d is any decimal digit)
SignEnd(s, p) == IF p < Len(s) /\ s[p + 1] = MINUS THEN p + 1 ELSE p

IntEnd(s, p) ==
    IF p < Len(s) /\ IsAsciiDigit(s[p + 1])
    THEN IF s[p + 1] = CH_0 THEN p + 1 ELSE DigitsEnd(s, p + 1)
    ELSE p

FracEnd(s, p) ==
    IF p + 1 < Len(s) /\ s[p + 1] = DOT /\ IsDigit(s[p + 2])
    THEN DigitsEnd(s, p + 1)
    ELSE p

ExpSignEnd(s, p) == IF p < Len(s) /\ s[p + 1] \in {MINUS, PLUS} THEN p + 1 ELSE p

ExpDigitsEnd(s, p, q) == IF q < Len(s) /\ IsDigit(s[q + 1]) THEN DigitsEnd(s, q) ELSE p

ExpEnd(s, p) ==
    IF p < Len(s) /\ s[p + 1] \in {CH_e, CH_E}
    THEN ExpDigitsEnd(s, p, ExpSignEnd(s, p + 1))
    ELSE p

\* the groups of a match that starts at p0 and has its group 1 up to p2, its
\* group 2 up to p3 and its group 3 up to p5 (an unmatched group is <<>>)
NumberGroups(s, p0, p2, p3, p5) ==
    [ok |-> TRUE,
     integer |-> SubSeq(s, p0 + 1, p2),
     frac |-> SubSeq(s, p2 + 1, p3),
     exp |-> SubSeq(s, p3 + 1, p5),
     end |-> p5]

NumberAfterInt(s, p0, p2, p3) == NumberGroups(s, p0, p2, p3, ExpEnd(s, p3))

\* p1 is the offset after the sign, p2 after the integer part: the pattern
\* does not match without a digit there
NumberFrom(s, p0, p1, p2) ==
    IF p2 = p1 THEN [ok |-> FALSE] ELSE NumberAfterInt(s, p0, p2, FracEnd(s, p2))

NumberAt(s, p0, p1) == NumberFrom(s, p0, p1, IntEnd(s, p1))

\* NUMBER_RE.match(s, idx)
MatchNumber(s, idx) == NumberAt(s, MatchPos(s, idx), SignEnd(s, MatchPos(s, idx)))

RECURSIVE DecFold(_, _)
DecFold(t, acc) ==
    IF t = <<>> THEN acc ELSE DecFold(Tail(t), 10 * acc + DigitVal(t[1]))

\* the number a run of digits with an optional sign denotes
SignedDigits(t) ==
    IF t # <<>> /\ t[1] = MINUS THEN -DecFold(Tail(t), 0)
    ELSE IF t # <<>> /\ t[1] = PLUS THEN DecFold(Tail(t), 0)
    ELSE DecFold(t, 0)

\* int(integer), the default parse_int
PyInt(integer) == VInt(SignedDigits(integer))

RECURSIVE StripZeros(_, _)
StripZeros(m, e) ==
    IF m = 0 THEN <<0, 0>>
    ELSE IF m % 10 = 0 THEN StripZeros(m \div 10, e + 1)
    ELSE <<m, e>>

RECURSIVE NDigits(_)
NDigits(m) == IF m < 10 THEN 1 ELSE 1 + NDigits(m \div 10)

RECURSIVE Pow10(_)
Pow10(n) == IF n = 0 THEN 1 ELSE 10 * Pow10(n - 1)

\* the first nine digits of m, zero-filled on the right
Lead9(m) ==
    IF NDigits(m) <= 9 THEN m * Pow10(9 - NDigits(m))
    ELSE m \div Pow10(NDigits(m) - 9)

\* the range of a double: 0.d1d2... * 10^decpt is above the largest double
\* (1.7976931348623157e308) from decpt 309 on, and below half the smallest
\* (4.9e-324) under decpt -323
DBL_MAX_DECPT == 309
DBL_MAX_LEAD9 == 179769313
DBL_MIN_DECPT == -323

Overflows(m, e) ==
    m # 0 /\ (NDigits(m) + e > DBL_MAX_DECPT
              \/ (NDigits(m) + e = DBL_MAX_DECPT /\ Lead9(m) > DBL_MAX_LEAD9))

Underflows(m, e) == m # 0 /\ NDigits(m) + e < DBL_MIN_DECPT

\* the offset of the first character of t that is in cs, Len(t) if none
RECURSIVE FindIn(_, _, _)
FindIn(t, cs, p) ==
    IF p >= Len(t) \/ t[p + 1] \in cs THEN p ELSE FindIn(t, cs, p + 1)

\* the parts of a text NUMBER_RE matched
ExpPos(text) == FindIn(text, {CH_e, CH_E}, 0)
DotPos(text) == FindIn(text, {DOT}, 0)
IntDigits(text) ==
    SubSeq(text, IF text[1] = MINUS THEN 2 ELSE 1, Min(DotPos(text), ExpPos(text)))
FracDigits(text) == SubSeq(text, DotPos(text) + 2, ExpPos(text))
ExpValue(text) ==
    IF ExpPos(text) = Len(text) THEN 0
    ELSE SignedDigits(SubSeq(text, ExpPos(text) + 2, Len(text)))

\* the decimal m * 10^e the text denotes, sign apart, as <<m, e>>
Decimal(text) ==
    StripZeros(DecFold(IntDigits(text) \o FracDigits(text), 0),
               ExpValue(text) - Len(FracDigits(text)))

\* the double for (-1)^neg * n[1] * 10^n[2]
ToDouble(neg, n) ==
    IF Overflows(n[1], n[2])
    THEN VNonFinite(IF neg THEN "-Infinity" ELSE "Infinity")
    ELSE IF Underflows(n[1], n[2]) THEN VReal(neg, 0, 0)
    ELSE VReal(neg, n[1], n[2])

\* float(text), the default parse_float, on a text NUMBER_RE matched: the
\* decimal it denotes, infinity above the range of a double and zero below
\* it (the rounding to 53 bits is left out: the decimals composed here have
\* few digits, and a double carries 15 of them exactly)
PyFloat(text) == ToDouble(text[1] = MINUS, Decimal(text))

\* NumberValue taking only a fraction part as the mark of a real
NumberValue_FracOnly(num) ==
    IF num.frac # <<>>
    THEN PyFloat(num.integer \o num.frac \o num.exp)
    ELSE PyInt(num.integer)

\* _scan_once on a match of NUMBER_RE: the hook that gets the text, and
\* which text it gets
NumberValue(num) ==
    IF num.frac # <<>> \/ num.exp # <<>>
    THEN PyFloat(num.integer \o num.frac \o num.exp)
    ELSE PyInt(num.integer)

\* _CONSTANTS.__getitem__, the default parse_constant
ParseConstant(name) == VNonFinite(name)

----------------------------------------------------------------------------
(* decoder.py: JSONObject, JSONArray; scanner.py: _scan_once.              *)
(* ctx is the decoder the scanner was made for: its strict flag and hooks. *)

\* whether two str keys are the same key of a dict
KeyEq(a, b) == a.t = b.t /\ a.v = b.v

\* DictSet keeping the value the key already has
DictSet_FirstWins(items, key, value) ==
    IF \E i \in 1..Len(items) : KeyEq(items[i][1], key)
    THEN items
    ELSE Append(items, <<key, value>>)

\* d[key] = value on a dict kept as its items in insertion order
DictSet(items, key, value) ==
    IF \E i \in 1..Len(items) : KeyEq(items[i][1], key)
    THEN [i \in 1..Len(items) |->
             IF KeyEq(items[i][1], key) THEN <<items[i][1], value>> ELSE items[i]]
    ELSE Append(items, <<key, value>>)

RECURSIVE DictFrom(_, _)
DictFrom(pairs, items) ==
    IF pairs = <<>> THEN items
    ELSE DictFrom(Tail(pairs), DictSet(items, pairs[1][1], pairs[1][2]))

\* dict(pairs)
PyDict(pairs) == VObj(DictFrom(pairs, <<>>))

\* the hooks a caller may configure: "list" keeps the pairs as they are,
\* "hook" wraps the dict it is given
CallPairsHook(pairs) == [t |-> "pairs", v |-> pairs]
CallObjectHook(d) == [t |-> "hooked", v |-> d]

\* BuildObject calling the object hook on what the ordered-pairs hook returned
BuildObject_BothHooks(pairs, ctx) ==
    IF ctx.object_pairs_hook # "None" /\ ctx.object_hook # "None"
    THEN CallObjectHook(CallPairsHook(pairs))
    ELSE IF ctx.object_pairs_hook # "None" THEN CallPairsHook(pairs)
    ELSE IF ctx.object_hook # "None" THEN CallObjectHook(PyDict(pairs))
    ELSE PyDict(pairs)

\* the end of JSONObject: the object built from the pairs
BuildObject(pairs, ctx) ==
    IF ctx.object_pairs_hook # "None" THEN CallPairsHook(pairs)
    ELSE IF ctx.object_hook # "None" THEN CallObjectHook(PyDict(pairs))
    ELSE PyDict(pairs)

\* the two-step whitespace skip after ':' and after ',' (a try block that
\* ignores IndexError, keeping the increments made before it)
SkipAfterDelimiter(s, end) ==
    IF HasIndex(s, end) /\ PyAt(s, end) \in WHITESPACE_STR
    THEN IF HasIndex(s, end + 1) /\ PyAt(s, end + 1) \in WHITESPACE_STR
         THEN WsEnd(s, end + 2)
         ELSE end + 1
    ELSE end

RECURSIVE ScanOnce(_, _, _, _)
RECURSIVE ObjectLoop(_, _, _, _, _)
RECURSIVE ArrayLoop(_, _, _, _, _)

\* JSONObject at the first character that is not whitespace after the '{'
ObjectStart(s, end, ctx, m) ==
    IF PySlice(s, end, end + 1) = <<RBRACE>>
    THEN Ok(BuildObject(<<>>, ctx), end + 1, m)
    ELSE IF PySlice(s, end, end + 1) # <<QUOTE>> THEN Err(E_PROPNAME, end, m)
    ELSE ObjectLoop(s, end + 1, ctx, m, <<>>)

\* JSONObject((s, end), ...), end just past the '{'
JSONObject(s, end, ctx, m) ==
    IF PySlice(s, end, end + 1) # <<QUOTE>> /\ InWs(PySlice(s, end, end + 1))
    THEN ObjectStart(s, WsEnd(s, end), ctx, m)
    ELSE ObjectStart(s, end, ctx, m)

\* ObjectNextKey closing the object at a '}' that follows the ','
ObjectNextKey_AllowsTrailingComma(s, end, ctx, m, pairs) ==
    IF PySlice(s, end, end + 1) = <<RBRACE>> THEN Ok(BuildObject(pairs, ctx), end + 1, m)
    ELSE IF PySlice(s, end, end + 1) # <<QUOTE>> THEN Err(E_PROPNAME, end, m)
    ELSE ObjectLoop(s, end + 1, ctx, m, pairs)

\* the while loop of JSONObject after the ',' and the whitespace after it
ObjectNextKey(s, end, ctx, m, pairs) ==
    IF PySlice(s, end, end + 1) # <<QUOTE>> THEN Err(E_PROPNAME, end, m)
    ELSE ObjectLoop(s, end + 1, ctx, m, pairs)

\* ObjectDelimiter with the error at the offset after the character
ObjectDelimiter_ErrorAfterChar(s, end, ctx, m, pairs, nextchar) ==
    IF nextchar = <<RBRACE>> THEN Ok(BuildObject(pairs, ctx), end + 1, m)
    ELSE IF nextchar # <<COMMA>> THEN Err(E_COMMA, end + 1, m)
    ELSE ObjectNextKey(s, WsEnd(s, end + 1), ctx, m, pairs)

\* the while loop of JSONObject at nextchar, the character at end that
\* follows a value and the whitespace after it (<<>> at the end of s)
ObjectDelimiter(s, end, ctx, m, pairs, nextchar) ==
    IF nextchar = <<RBRACE>> THEN Ok(BuildObject(pairs, ctx), end + 1, m)
    ELSE IF nextchar # <<COMMA>> THEN Err(E_COMMA, end, m)
    ELSE ObjectNextKey(s, WsEnd(s, end + 1), ctx, m, pairs)

\* s[end], '' for the IndexError the try block ignores
CharOrNone(s, end) == IF HasIndex(s, end) THEN <<PyAt(s, end)>> ELSE <<>>

\* the skip of the whitespace after a value that ends at end
AfterValue(s, end) ==
    IF HasIndex(s, end) /\ PyAt(s, end) \in WHITESPACE_STR
    THEN WsEnd(s, end + 1) ELSE end

ObjectAfterValue(s, end, ctx, m, pairs) ==
    ObjectDelimiter(s, end, ctx, m, pairs, CharOrNone(s, end))

\* the while loop of JSONObject on the result v of scan_once for the value
ObjectValue(s, ctx, pairs, key, v) ==
    IF v.k = "stop" THEN Err(E_VALUE, v.pos, v.memo)
    ELSE IF v.k # "ok" THEN v
    ELSE ObjectAfterValue(s, AfterValue(s, v.end), ctx, v.memo,
                          Append(pairs, <<VStr(key), v.value>>))

\* the while loop of JSONObject at end, where the ':' must be
ObjectColon(s, end, ctx, m, pairs, key) ==
    IF PySlice(s, end, end + 1) # <<COLON>> THEN Err(E_COLON, end, m)
    ELSE ObjectValue(s, ctx, pairs, key,
                     ScanOnce(s, SkipAfterDelimiter(s, end + 1), ctx, m))

\* ObjectKey taking from the memo a key of the same length, when it has one
ObjectKey_InternsByLength(s, ctx, m, pairs, k) ==
    IF k.k # "ok" THEN k
    ELSE ObjectColon(s,
                     IF PySlice(s, k.end, k.end + 1) # <<COLON>>
                     THEN WsEnd(s, k.end) ELSE k.end,
                     ctx, m \cup {k.value}, pairs,
                     IF \E x \in m : Len(x) = Len(k.value)
                     THEN CHOOSE x \in m : Len(x) = Len(k.value)
                     ELSE k.value)

\* the while loop of JSONObject on the result k of scanstring for the key:
\* the key is interned in the memo
ObjectKey(s, ctx, m, pairs, k) ==
    IF k.k # "ok" THEN k
    ELSE ObjectColon(s,
                     IF PySlice(s, k.end, k.end + 1) # <<COLON>>
                     THEN WsEnd(s, k.end) ELSE k.end,
                     ctx, m \cup {k.value}, pairs, k.value)

\* one iteration of the while loop of JSONObject, end just past the key's
\* opening quote
ObjectLoop(s, end, ctx, m, pairs) ==
    ObjectKey(s, ctx, m, pairs, ScanString(s, end, ctx.strict, m))

\* JSONArray at the first character that is not whitespace after the '['
ArrayStart(s, end, ctx, m) ==
    IF PySlice(s, end, end + 1) = <<RBRACKET>> THEN Ok(VArr(<<>>), end + 1, m)
    ELSE ArrayLoop(s, end, ctx, m, <<>>)

\* JSONArray((s, end), scan_once), end just past the '['
JSONArray(s, end, ctx, m) ==
    IF InWs(PySlice(s, end, end + 1))
    THEN ArrayStart(s, WsEnd(s, end + 1), ctx, m)
    ELSE ArrayStart(s, end, ctx, m)

\* ArrayDelimiter closing the array at a ']' that follows the ','
ArrayDelimiter_AllowsTrailingComma(s, end, ctx, m, values) ==
    IF PySlice(s, end, end + 1) = <<RBRACKET>> THEN Ok(VArr(values), end + 1, m)
    ELSE IF PySlice(s, end, end + 1) # <<COMMA>> THEN Err(E_COMMA, end, m)
    ELSE IF PySlice(s, WsEnd(s, end + 1), WsEnd(s, end + 1) + 1) = <<RBRACKET>>
         THEN Ok(VArr(values), WsEnd(s, end + 1) + 1, m)
    ELSE ArrayLoop(s, SkipAfterDelimiter(s, end + 1), ctx, m, values)

\* the while loop of JSONArray at the character at end that follows a value
\* and the whitespace after it
ArrayDelimiter(s, end, ctx, m, values) ==
    IF PySlice(s, end, end + 1) = <<RBRACKET>> THEN Ok(VArr(values), end + 1, m)
    ELSE IF PySlice(s, end, end + 1) # <<COMMA>> THEN Err(E_COMMA, end, m)
    ELSE ArrayLoop(s, SkipAfterDelimiter(s, end + 1), ctx, m, values)

\* the while loop of JSONArray after a value that ends at end
ArrayAfterValue(s, end, ctx, m, values) ==
    IF InWs(PySlice(s, end, end + 1))
    THEN ArrayDelimiter(s, WsEnd(s, end + 1), ctx, m, values)
    ELSE ArrayDelimiter(s, end, ctx, m, values)

\* the while loop of JSONArray on the result v of scan_once for the value
ArrayValue(s, ctx, values, v) ==
    IF v.k = "stop" THEN Err(E_VALUE, v.pos, v.memo)
    ELSE IF v.k # "ok" THEN v
    ELSE ArrayAfterValue(s, v.end, ctx, v.memo, Append(values, v.value))

\* one iteration of the while loop of JSONArray
ArrayLoop(s, end, ctx, m, values) == ArrayValue(s, ctx, values, ScanOnce(s, end, ctx, m))

\* _scan_once on the result r of parse_string
StringValue(r, m) == IF r.k = "ok" THEN Ok(VStr(r.value), r.end, m) ELSE r

\* _scan_once without the branch of '-Infinity'
ScanNumber_NoNegInfinity(s, idx, m, nextchar, num) ==
    IF num.ok THEN Ok(NumberValue(num), num.end, m)
    ELSE IF nextchar = CH_N /\ PySlice(s, idx, idx + 3) = KW_NaN
         THEN Ok(ParseConstant("NaN"), idx + 3, m)
    ELSE IF nextchar = CH_I /\ PySlice(s, idx, idx + 8) = KW_Infinity
         THEN Ok(ParseConstant("Infinity"), idx + 8, m)
    ELSE Stop(idx, m)

\* _scan_once on the result num of match_number, for a nextchar that starts
\* no string, object, array, null, true or false
ScanNumber(s, idx, m, nextchar, num) ==
    IF num.ok THEN Ok(NumberValue(num), num.end, m)
    ELSE IF nextchar = CH_N /\ PySlice(s, idx, idx + 3) = KW_NaN
         THEN Ok(ParseConstant("NaN"), idx + 3, m)
    ELSE IF nextchar = CH_I /\ PySlice(s, idx, idx + 8) = KW_Infinity
         THEN Ok(ParseConstant("Infinity"), idx + 8, m)
    ELSE IF nextchar = MINUS /\ PySlice(s, idx, idx + 9) = KW_NegInfinity
         THEN Ok(ParseConstant("-Infinity"), idx + 9, m)
    ELSE Stop(idx, m)

\* _scan_once on nextchar = string[idx]
ScanAt(s, idx, ctx, m, nextchar) ==
    IF nextchar = QUOTE THEN StringValue(ScanString(s, idx + 1, ctx.strict, m), m)
    ELSE IF nextchar = LBRACE THEN JSONObject(s, idx + 1, ctx, m)
    ELSE IF nextchar = LBRACKET THEN JSONArray(s, idx + 1, ctx, m)
    ELSE IF nextchar = CH_n /\ PySlice(s, idx, idx + 4) = KW_null
         THEN Ok(VNull, idx + 4, m)
    ELSE IF nextchar = CH_t /\ PySlice(s, idx, idx + 4) = KW_true
         THEN Ok(VBool(TRUE), idx + 4, m)
    ELSE IF nextchar = CH_f /\ PySlice(s, idx, idx + 5) = KW_false
         THEN Ok(VBool(FALSE), idx + 5, m)
    ELSE ScanNumber(s, idx, m, nextchar, MatchNumber(s, idx))

\* _scan_once(string, idx): StopIteration(idx) for an IndexError
ScanOnce(s, idx, ctx, m) ==
    IF ~HasIndex(s, idx) THEN Stop(idx, m) ELSE ScanAt(s, idx, ctx, m, PyAt(s, idx))

----------------------------------------------------------------------------
(* decoder.py: JSONDecoder.raw_decode and JSONDecoder.decode.              *)

\* raw_decode on the outcome r of scan_once: a StopIteration becomes the
\* JSONDecodeError "Expecting value"
RaiseOnStop(r) == IF r.k = "stop" THEN Err(E_VALUE, r.pos, r.memo) ELSE r

\* raw_decode refusing text after the value, as decode does
RawDecodeOf_RejectsTrailing(s, idx, ctx, m) ==
    IF ScanOnce(s, idx, ctx, m).k = "ok" /\ ScanOnce(s, idx, ctx, m).end # Len(s)
    THEN Err(E_EXTRA, ScanOnce(s, idx, ctx, m).end, m)
    ELSE RaiseOnStop(ScanOnce(s, idx, ctx, m))

\* raw_decode(s, idx)
RawDecodeOf(s, idx, ctx, m) == RaiseOnStop(ScanOnce(s, idx, ctx, m))

\* decode without the skip of the whitespace after the value
CheckEnd_NoTrailingSkip(s, r, end) ==
    IF r.k # "ok" THEN r
    ELSE IF r.end # Len(s) THEN Err(E_EXTRA, r.end, r.memo)
    ELSE Ok(r.value, r.end, r.memo)

\* decode after raw_decode returned r and the whitespace after the value
\* was skipped up to end: the value alone is returned, end is kept here for
\* the checks
CheckEnd(s, r, end) ==
    IF r.k # "ok" THEN r
    ELSE IF end # Len(s) THEN Err(E_EXTRA, end, r.memo)
    ELSE Ok(r.value, end, r.memo)

DecodeRest(s, r) == CheckEnd(s, r, IF r.k = "ok" THEN WsEnd(s, r.end) ELSE 0)

\* decode(s)
DecodeOf(s, ctx, m) == DecodeRest(s, RawDecodeOf(s, WsEnd(s, 0), ctx, m))

----------------------------------------------------------------------------
(* The three loops one iteration at a time: where an iteration that begins *)
(* at the offset end leaves the scan for the next iteration, or that the   *)
(* loop is left (by break, return or raise).                               *)

LoopExit == [k |-> "exit", end |-> 0]
LoopNext(end) == [k |-> "next", end |-> end]

\* the \u branch of one iteration of the while loop of py_scanstring
ChunkStepUnicode(ue) ==
    IF ue.k = "err" THEN LoopExit
    ELSE IF ue.uni \notin 0..MAX_CODE_POINT THEN LoopExit
    ELSE LoopNext(ue.end)

\* one iteration of the while loop of py_scanstring after the chunk that
\* has its terminator at offset t
ChunkStepAfter(s, t, isStrict) ==
    IF t = -1 \/ s[t + 1] = QUOTE THEN LoopExit
    ELSE IF s[t + 1] # BSLASH
    THEN (IF isStrict THEN LoopExit ELSE LoopNext(t + 1))
    ELSE IF ~HasIndex(s, t + 1) THEN LoopExit
    ELSE IF PyAt(s, t + 1) = CH_u
    THEN ChunkStepUnicode(ScanUnicodeEscape(s, t + 1))
    ELSE IF PyAt(s, t + 1) \in DOMAIN BACKSLASH THEN LoopNext(t + 2)
    ELSE LoopExit

\* one iteration of the while loop of py_scanstring that begins at end
ChunkStep(s, end, isStrict) == ChunkStepAfter(s, StringChunk(s, end), isStrict)

\* one iteration of the while loop of JSONArray after its value v
ElementStepAfter(s, v, d) ==
    IF PySlice(s, d, d + 1) # <<COMMA>> THEN LoopExit
    ELSE LoopNext(SkipAfterDelimiter(s, d + 1))

\* one iteration of the while loop of JSONArray that begins at end, on the
\* result v of scan_once there
ElementStepOn(s, v) ==
    IF v.k # "ok" THEN LoopExit
    ELSE ElementStepAfter(s, v, IF InWs(PySlice(s, v.end, v.end + 1))
                                THEN WsEnd(s, v.end + 1) ELSE v.end)

ElementStep(s, end, ctx, m) == ElementStepOn(s, ScanOnce(s, end, ctx, m))

\* one iteration of the while loop of JSONObject after the ',' at offset d
PairStepNextKey(s, q) ==
    IF PySlice(s, q, q + 1) # <<QUOTE>> THEN LoopExit ELSE LoopNext(q + 1)

\* one iteration of the while loop of JSONObject on the result v of
\* scan_once for the value
PairStepOn(s, v) ==
    IF v.k # "ok" THEN LoopExit
    ELSE IF CharOrNone(s, AfterValue(s, v.end)) # <<COMMA>> THEN LoopExit
    ELSE PairStepNextKey(s, WsEnd(s, AfterValue(s, v.end) + 1))

\* one iteration of the while loop of JSONObject at c, where the ':' must be
PairStepColon(s, c, ctx, m) ==
    IF PySlice(s, c, c + 1) # <<COLON>> THEN LoopExit
    ELSE PairStepOn(s, ScanOnce(s, SkipAfterDelimiter(s, c + 1), ctx, m))

\* one iteration of the while loop of JSONObject on the result k of
\* scanstring for the key
PairStepKey(s, ctx, m, k) ==
    IF k.k # "ok" THEN LoopExit
    ELSE PairStepColon(s,
                       IF PySlice(s, k.end, k.end + 1) # <<COLON>>
                       THEN WsEnd(s, k.end) ELSE k.end,
                       ctx, m \cup {k.value})

\* one iteration of the while loop of JSONObject that begins at end, just
\* past the opening quote of a key
PairStep(s, end, ctx, m) == PairStepKey(s, ctx, m, ScanString(s, end, ctx.strict, m))

----------------------------------------------------------------------------
(* encoder.py: ESCAPE, ESCAPE_ASCII, ESCAPE_DCT, py_encode_basestring,     *)
(* py_encode_basestring_ascii, and the texts of int and float values.      *)

HexDigit(d) == IF d < 10 THEN CH_0 + d ELSE CH_a + (d - 10)

\* '\\u{0:04x}'.format(n), for n < 0x10000
UEscape(n) ==
    <<BSLASH, CH_u, HexDigit(n \div 4096), HexDigit((n \div 256) % 16),
      HexDigit((n \div 16) % 16), HexDigit(n % 16)>>

ESCAPE_DCT ==
    [c \in (0..31) \cup {BSLASH, QUOTE} |->
        CASE c = BSLASH -> <<BSLASH, BSLASH>>
          [] c = QUOTE -> <<BSLASH, QUOTE>>
          [] c = BS -> <<BSLASH, CH_b>>
          [] c = FF -> <<BSLASH, CH_f>>
          [] c = LF -> <<BSLASH, CH_n>>
          [] c = CR -> <<BSLASH, CH_r>>
          [] c = TAB -> <<BSLASH, CH_t>>
          [] OTHER -> UEscape(c)]

\* the characters ESCAPE matches: [\x00-\x1f\\"\b\f\n\r\t]
ESCAPE(c) == c \in 0..31 \/ c \in {BSLASH, QUOTE}

\* ESCAPE_ASCII without the supplementary planes
ESCAPE_ASCII_BasicPlane(c) ==
    c \in {BSLASH, QUOTE} \/ (c \notin SPACE..126 /\ c < SUPPLEMENTARY)

\* the characters ESCAPE_ASCII matches: ([\\"]|[^\ -~])
ESCAPE_ASCII(c) == c \in {BSLASH, QUOTE} \/ c \notin SPACE..126

\* replace of py_encode_basestring_ascii on a matched character: a code
\* point from 0x10000 on becomes the escapes of its surrogate pair
ReplaceAscii(c) ==
    IF c \in DOMAIN ESCAPE_DCT THEN ESCAPE_DCT[c]
    ELSE IF c < SUPPLEMENTARY THEN UEscape(c)
    ELSE UEscape(HI_FIRST + (((c - SUPPLEMENTARY) \div 1024) % 1024))
         \o UEscape(LO_FIRST + ((c - SUPPLEMENTARY) % 1024))

\* ESCAPE_ASCII.sub(replace, s)
RECURSIVE SubAscii(_)
SubAscii(s) ==
    IF s = <<>> THEN <<>>
    ELSE (IF ESCAPE_ASCII(s[1]) THEN ReplaceAscii(s[1]) ELSE <<s[1]>>)
         \o SubAscii(Tail(s))

\* ESCAPE.sub(replace, s)
RECURSIVE SubEscape(_)
SubEscape(s) ==
    IF s = <<>> THEN <<>>
    ELSE (IF ESCAPE(s[1]) THEN ESCAPE_DCT[s[1]] ELSE <<s[1]>>)
         \o SubEscape(Tail(s))

py_encode_basestring(s) == <<QUOTE>> \o SubEscape(s) \o <<QUOTE>>

py_encode_basestring_ascii(s) == <<QUOTE>> \o SubAscii(s) \o <<QUOTE>>

\* the decimal digits of a natural
RECURSIVE Digits(_)
Digits(n) ==
    IF n < 10 THEN <<CH_0 + n>> ELSE Digits(n \div 10) \o <<CH_0 + (n % 10)>>

\* str(int(value))
IntStr(n) == IF n < 0 THEN <<MINUS>> \o Digits(-n) ELSE Digits(n)

Zeros(n) == [i \in 1..n |-> CH_0]

\* ReprFixed that leaves out the point and the zero after a whole number
ReprFixed_NoPoint(ds, decpt) ==
    IF decpt <= 0 THEN <<CH_0, DOT>> \o Zeros(-decpt) \o ds
    ELSE IF decpt >= Len(ds) THEN ds \o Zeros(decpt - Len(ds))
    ELSE SubSeq(ds, 1, decpt) \o <<DOT>> \o SubSeq(ds, decpt + 1, Len(ds))

\* the digits ds with the decimal point after the first decpt of them
ReprFixed(ds, decpt) ==
    IF decpt <= 0 THEN <<CH_0, DOT>> \o Zeros(-decpt) \o ds
    ELSE IF decpt >= Len(ds) THEN ds \o Zeros(decpt - Len(ds)) \o <<DOT, CH_0>>
    ELSE SubSeq(ds, 1, decpt) \o <<DOT>> \o SubSeq(ds, decpt + 1, Len(ds))

\* the exponent of a repr: a sign and two digits at least
ReprExponent(x) ==
    <<CH_e>> \o (IF x < 0 THEN <<MINUS>> ELSE <<PLUS>>)
    \o (IF x \in -9..9 THEN <<CH_0>> ELSE <<>>)
    \o Digits(IF x < 0 THEN -x ELSE x)

\* the digits ds as d.ddd and the exponent x
ReprScientific(ds, x) ==
    <<ds[1]>> \o (IF Len(ds) > 1 THEN <<DOT>> \o Tail(ds) ELSE <<>>)
    \o ReprExponent(x)

\* the decimal point is spelled out from 1e-4 up to 1e16
REPR_MIN_DECPT == -4
REPR_MAX_DECPT == 16

ReprDigits(ds, decpt) ==
    IF REPR_MIN_DECPT < decpt /\ decpt <= REPR_MAX_DECPT
    THEN ReprFixed(ds, decpt)
    ELSE ReprScientific(ds, decpt - 1)

\* FLOAT_REPR(o) = repr(o) of a finite float: the shortest digits that read
\* back as o, which for the decimals of this model are those of o.m
FLOAT_REPR(o) ==
    (IF o.neg THEN <<MINUS>> ELSE <<>>)
    \o ReprDigits(Digits(o.m), NDigits(o.m) + o.e)

E_NAN == "Out of range float values are not JSON compliant"
E_CIRCULAR == "Circular reference detected"
E_UNSERIALIZABLE == "is not JSON serializable"
E_KEY == "is not a string"
E_ORDER == "TypeError: '<' not supported"
E_RECURSION == "RecursionError: maximum recursion depth exceeded"

\* floatstr(o) of iterencode: [ok |-> FALSE] stands for the ValueError
\* floatstr that refuses NaN alone when allow_nan is off
floatstr_RefusesNaNOnly(o, allow_nan) ==
    IF o.t = "real" THEN [ok |-> TRUE, text |-> FLOAT_REPR(o)]
    ELSE IF ~allow_nan /\ o.v = "NaN" THEN [ok |-> FALSE, text |-> <<>>]
    ELSE [ok |-> TRUE, text |-> KW_OF[o.v]]

floatstr(o, allow_nan) ==
    IF o.t = "real" THEN [ok |-> TRUE, text |-> FLOAT_REPR(o)]
    ELSE IF ~allow_nan THEN [ok |-> FALSE, text |-> <<>>]
    ELSE [ok |-> TRUE, text |-> KW_OF[o.v]]

----------------------------------------------------------------------------
(* The values an encoder is given.  Scalars are the records of the decoder *)
(* (VNull, VBool, VInt, VReal, VNonFinite, VStr).  Lists, dicts and        *)
(* objects of other classes are mutable and have an identity: they live in *)
(* a heap, a sequence of objects, and are referred to by their index.      *)

Ref(i) == [t |-> "ref", id |-> i]
EmptyList == [t |-> "list", items |-> <<>>]
EmptyDict == [t |-> "dict", items |-> <<>>]
\* an object of another class: to is what the default hook returns for it
CustomObject(to) == [t |-> "custom", to |-> to]
\* a key of a type the encoder has no text for: the empty tuple
VTuple == [t |-> "tuple", v |-> <<>>]

IsAtom(c) == c.t \in {"null", "bool", "int", "real", "nonfinite", "str"}
IsRef(c) == c.t = "ref"

\* the order of two keys under <, for keys Python can order: texts by code
\* point, numbers (bool is a number) by value
RECURSIVE TextLess(_, _)
TextLess(a, b) ==
    IF b = <<>> THEN FALSE
    ELSE IF a = <<>> THEN TRUE
    ELSE IF a[1] # b[1] THEN a[1] < b[1]
    ELSE TextLess(Tail(a), Tail(b))

KeyClass(k) ==
    IF k.t \in {"bool", "int", "real", "nonfinite"} THEN "number" ELSE k.t

NumSign(k) ==
    CASE k.t = "bool" -> IF k.v THEN 1 ELSE 0
      [] k.t = "int" -> IF k.v > 0 THEN 1 ELSE IF k.v < 0 THEN -1 ELSE 0
      [] k.t = "real" -> IF k.m = 0 THEN 0 ELSE IF k.neg THEN -1 ELSE 1
      [] OTHER -> IF k.v = "-Infinity" THEN -1 ELSE 1

\* the magnitude of a number as <<decpt, first nine digits>>
NumMag(k) ==
    CASE k.t = "bool" -> <<1, Lead9(1)>>
      [] k.t = "int" ->
           <<NDigits(IF k.v < 0 THEN -k.v ELSE k.v),
             Lead9(IF k.v < 0 THEN -k.v ELSE k.v)>>
      [] k.t = "real" -> <<NDigits(k.m) + k.e, Lead9(k.m)>>
      [] OTHER -> <<DBL_MAX_DECPT + 1, 0>>

MagLess(a, b) == a[1] < b[1] \/ (a[1] = b[1] /\ a[2] < b[2])

\* int(k) of a bool or an int
IntOf(k) == IF k.t = "bool" THEN (IF k.v THEN 1 ELSE 0) ELSE k.v

NumLess(a, b) ==
    IF a.t \in {"bool", "int"} /\ b.t \in {"bool", "int"}
    THEN IntOf(a) < IntOf(b)
    ELSE IF NumSign(a) # NumSign(b) THEN NumSign(a) < NumSign(b)
    ELSE IF NumSign(a) = 1 THEN MagLess(NumMag(a), NumMag(b))
    ELSE IF NumSign(a) = -1 THEN MagLess(NumMag(b), NumMag(a))
    ELSE FALSE

\* a < b for two keys of one class
KeyLess(a, b) ==
    IF KeyClass(a) = "str" THEN TextLess(a.v, b.v)
    ELSE IF KeyClass(a) = "number" THEN NumLess(a, b)
    ELSE FALSE

\* a == b for two keys: 1, 1.0 and True are one key of a dict
PyKeyEq(a, b) ==
    /\ KeyClass(a) = KeyClass(b)
    /\ ~KeyLess(a, b)
    /\ ~KeyLess(b, a)

\* dct[key] = value on the items of a dict: a key the dict has keeps its
\* place and its first spelling
SetItemOf(items, key, value) ==
    IF \E i \in 1..Len(items) : PyKeyEq(items[i][1], key)
    THEN [i \in 1..Len(items) |->
             IF PyKeyEq(items[i][1], key) THEN <<items[i][1], value>>
             ELSE items[i]]
    ELSE Append(items, <<key, value>>)

\* sorted(dct.items(), key=lambda kv: kv[0]) raises TypeError when two keys
\* have no order: keys of two classes, or two keys that are None or tuples
\* of unordered things
Sortable(items) ==
    \A i, j \in 1..Len(items) :
        i # j => /\ KeyClass(items[i][1]) = KeyClass(items[j][1])
                 /\ KeyClass(items[i][1]) \in {"str", "number", "tuple"}

\* the place of item x in the sorted items before it: after every item
\* that is not greater (the sort is stable)
RECURSIVE InsertSorted(_, _)
InsertSorted(sorted, x) ==
    IF sorted = <<>> THEN <<x>>
    ELSE IF KeyLess(x[1], sorted[Len(sorted)][1])
    THEN Append(InsertSorted(SubSeq(sorted, 1, Len(sorted) - 1), x),
                sorted[Len(sorted)])
    ELSE Append(sorted, x)

RECURSIVE SortItems(_)
SortItems(items) ==
    IF items = <<>> THEN <<>>
    ELSE InsertSorted(SortItems(SubSeq(items, 1, Len(items) - 1)),
                      items[Len(items)])

----------------------------------------------------------------------------
(* JSONEncoder.__init__ and the class attributes it leaves alone.          *)

NoIndent == [is |-> "None"]
IndentSpaces(n) == [is |-> "int", n |-> n]
IndentText(s) == [is |-> "str", s |-> s]
NoSeparators == [is |-> "None"]
Separators(item, key) == [is |-> "tuple", item |-> item, key |-> key]

\* the class attributes item_separator = ', ' and key_separator = ': '
ITEM_SEPARATOR == <<COMMA, SPACE>>
KEY_SEPARATOR == <<COLON, SPACE>>

\* JSONEncoder.__init__ leaving item_separator alone when only indent is given
JSONEncoder_KeepsItemSeparator(skipkeys, ensure_ascii, check_circular, allow_nan, sort_keys, indent, separators, default) ==
    [skipkeys |-> skipkeys, ensure_ascii |-> ensure_ascii,
     check_circular |-> check_circular, allow_nan |-> allow_nan,
     sort_keys |-> sort_keys, indent |-> indent,
     item_separator |->
         IF separators.is # "None" THEN separators.item ELSE ITEM_SEPARATOR,
     key_separator |->
         IF separators.is # "None" THEN separators.key ELSE KEY_SEPARATOR,
     default |-> default]

\* default is "class" for JSONEncoder.default, which raises TypeError, or
\* "convert" for a hook that returns the object's to
JSONEncoder(skipkeys, ensure_ascii, check_circular, allow_nan, sort_keys, indent, separators, default) ==
    [skipkeys |-> skipkeys, ensure_ascii |-> ensure_ascii,
     check_circular |-> check_circular, allow_nan |-> allow_nan,
     sort_keys |-> sort_keys, indent |-> indent,
     item_separator |->
         IF separators.is # "None" THEN separators.item
         ELSE IF indent.is # "None" THEN <<COMMA>>
         ELSE ITEM_SEPARATOR,
     key_separator |->
         IF separators.is # "None" THEN separators.key ELSE KEY_SEPARATOR,
     default |-> default]

DefaultEncoder ==
    JSONEncoder(FALSE, TRUE, TRUE, TRUE, FALSE, NoIndent, NoSeparators, "class")

----------------------------------------------------------------------------
(* _make_iterencode: the generators _iterencode, _iterencode_list and      *)
(* _iterencode_dict.  A generator that delegates with yield from is a      *)
(* stack of frames; a frame is a call of one of the three functions on the *)
(* value o at an indentation level, stopped at the place pc, with the loop *)
(* index i, the dict's items and its first flag.  The state g of the       *)
(* generator is the stack, the markers dict (its keys) and what the last   *)
(* resumption ended with: a chunk (st = "yield"), StopIteration ("done")   *)
(* or an exception ("raise").                                              *)

Frame(fn, o, level) ==
    [fn |-> fn, o |-> o, level |-> level, pc |-> "start", i |-> 1,
     items |-> <<>>, first |-> TRUE]

\* iterencode(o): the generator _iterencode(o, 0), not started
NewGen(o) ==
    [st |-> "new", frames |-> <<Frame("iterencode", o, 0)>>, markers |-> {},
     chunk |-> <<>>, err |-> ""]

\* no generator
NoGen == [st |-> "none", frames |-> <<>>, markers |-> {}, chunk |-> <<>>,
          err |-> ""]

Top(g) == g.frames[Len(g.frames)]
Goto(g, pc) == [g EXCEPT !.frames[Len(g.frames)].pc = pc]
\* the loop goes on to its next item
Advance(g, pc) ==
    [g EXCEPT !.frames[Len(g.frames)].pc = pc,
              !.frames[Len(g.frames)].i = @ + 1]
Yield(g, text) == [g EXCEPT !.st = "yield", !.chunk = text]
Raise(g, msg) == [g EXCEPT !.st = "raise", !.err = msg]

\* the function returns: its caller goes on after the yield from, and the
\* generator is exhausted when the outermost function returns
PopFrame(g) ==
    IF Len(g.frames) = 1 THEN [g EXCEPT !.frames = <<>>, !.st = "done"]
    ELSE [g EXCEPT !.frames = SubSeq(@, 1, Len(@) - 1)]

IterencodeFn(h, c) ==
    IF IsRef(c) /\ h[c.id].t \in {"list", "dict"} THEN h[c.id].t
    ELSE "iterencode"

\* chunks = _iterencode_list(value, ...) or _iterencode_dict(value, ...) or
\* _iterencode(value, ...)
ChildFrame(h, c, level) == Frame(IterencodeFn(h, c), c, level)

\* a call: RecursionError when the stack is full
PushFrame(g, f, limit) ==
    IF Len(g.frames) >= limit THEN Raise(g, E_RECURSION)
    ELSE [g EXCEPT !.frames = Append(@, f)]

\* markerid in markers, false with no markers
IsMarked_Never(enc, g, id) == FALSE
IsMarked(enc, g, id) == enc.check_circular /\ id \in g.markers

\* markers[markerid] = o
Mark(enc, g, id) ==
    IF enc.check_circular THEN [g EXCEPT !.markers = @ \cup {id}] ELSE g

\* del markers[markerid]
Unmark_Keeps(enc, g, id) == g
Unmark(enc, g, id) ==
    IF enc.check_circular THEN [g EXCEPT !.markers = @ \ {id}] ELSE g

\* _encoder
Encoder(enc, s) ==
    IF enc.ensure_ascii THEN py_encode_basestring_ascii(s)
    ELSE py_encode_basestring(s)

\* the text of a value that is not a container
AtomText(enc, v) ==
    CASE v.t = "str" -> [ok |-> TRUE, text |-> Encoder(enc, v.v)]
      [] v.t = "null" -> [ok |-> TRUE, text |-> KW_null]
      [] v.t = "bool" ->
           [ok |-> TRUE, text |-> IF v.v THEN KW_true ELSE KW_false]
      [] v.t = "int" -> [ok |-> TRUE, text |-> IntStr(v.v)]
      [] OTHER -> floatstr(v, enc.allow_nan)

\* yield buf + text, where making the text may raise
YieldAtom(g, buf, r) ==
    IF r.ok THEN Yield(g, buf \o r.text) ELSE Raise(g, E_NAN)

\* _indent as a text
RECURSIVE Repeat(_, _)
Repeat(s, n) == IF n <= 0 THEN <<>> ELSE s \o Repeat(s, n - 1)

IndentUnit(enc) ==
    IF enc.indent.is = "int" THEN Repeat(<<SPACE>>, enc.indent.n)
    ELSE enc.indent.s

\* '\n' + _indent * level
NewlineIndent(enc, level) == <<LF>> \o Repeat(IndentUnit(enc), level)

\* newline_indent inside a container entered at a level, '' for None
InnerNewline(enc, level) ==
    IF enc.indent.is = "None" THEN <<>> ELSE NewlineIndent(enc, level + 1)

\* _current_indent_level inside a container entered at a level
InnerLevel(enc, level) == IF enc.indent.is = "None" THEN level ELSE level + 1

\* the end of a container: yield '\n' + _indent * level when indenting
ContainerTail(enc, g, f) ==
    IF enc.indent.is = "None" THEN Goto(g, "close")
    ELSE Yield(Goto(g, "close"), NewlineIndent(enc, f.level))

\* _iterencode_list from its first line to the loop
ListStart(h, enc, g, f) ==
    IF h[f.o.id].items = <<>>
    THEN Yield(Goto(g, "ret"), <<LBRACKET, RBRACKET>>)
    ELSE IF IsMarked(enc, g, f.o.id) THEN Raise(g, E_CIRCULAR)
    ELSE Goto(Mark(enc, g, f.o.id), "item")

\* buf: '[' and the indentation for the first item, the separator after
ListBuf(enc, f) ==
    (IF f.i = 1 THEN <<LBRACKET>> ELSE enc.item_separator)
    \o InnerNewline(enc, f.level)

ListItemOf(enc, g, f, value) ==
    IF IsAtom(value)
    THEN YieldAtom(Advance(g, "item"), ListBuf(enc, f), AtomText(enc, value))
    ELSE Yield(Goto(g, "enter"), ListBuf(enc, f))

\* one turn of for value in lst, up to its yield
ListItem(h, enc, g, f) ==
    IF f.i > Len(h[f.o.id].items) THEN Goto(g, "tail")
    ELSE ListItemOf(enc, g, f, h[f.o.id].items[f.i])

\* yield from chunks, for a value that is not a scalar
ListEnter(h, enc, g, f, limit) ==
    PushFrame(Advance(g, "item"),
              ChildFrame(h, h[f.o.id].items[f.i], InnerLevel(enc, f.level)),
              limit)

\* _iterencode_dict from its first line to yield '{'
DictStart(h, enc, g, f) ==
    IF h[f.o.id].items = <<>>
    THEN Yield(Goto(g, "ret"), <<LBRACE, RBRACE>>)
    ELSE IF IsMarked(enc, g, f.o.id) THEN Raise(g, E_CIRCULAR)
    ELSE Yield(Goto(Mark(enc, g, f.o.id), "open"), <<LBRACE>>)

\* yield newline_indent
DictOpen(enc, g, f) ==
    IF enc.indent.is = "None" THEN Goto(g, "sort")
    ELSE Yield(Goto(g, "sort"), NewlineIndent(enc, f.level + 1))

SetItems(g, items) ==
    [g EXCEPT !.frames[Len(g.frames)].items = items,
              !.frames[Len(g.frames)].pc = "key"]

\* DictSort leaving the items as the dict has them
DictSort_Unsorted(h, enc, g, f) == SetItems(g, h[f.o.id].items)

\* items = sorted(dct.items(), key=lambda kv: kv[0]) or dct.items()
DictSort(h, enc, g, f) ==
    IF ~enc.sort_keys THEN SetItems(g, h[f.o.id].items)
    ELSE IF ~Sortable(h[f.o.id].items) THEN Raise(g, E_ORDER)
    ELSE SetItems(g, SortItems(h[f.o.id].items))

KeyOk(text) == [k |-> "text", text |-> text]
KeyOfFloat(r) == IF r.ok THEN KeyOk(r.text) ELSE [k |-> "raise", err |-> E_NAN]

\* the text a key becomes, or that the item is skipped, or the error
KeyText(key, enc) ==
    CASE key.t = "str" -> KeyOk(key.v)
      [] key.t \in {"real", "nonfinite"} ->
           KeyOfFloat(floatstr(key, enc.allow_nan))
      [] key.t = "bool" -> KeyOk(IF key.v THEN KW_true ELSE KW_false)
      [] key.t = "null" -> KeyOk(KW_null)
      [] key.t = "int" -> KeyOk(IntStr(key.v))
      [] OTHER -> IF enc.skipkeys THEN [k |-> "skip"]
                  ELSE [k |-> "raise", err |-> E_KEY]

NotFirst(g) == [g EXCEPT !.frames[Len(g.frames)].first = FALSE]

DictKeyOf(enc, g, f, kt) ==
    IF kt.k = "skip" THEN Advance(g, "key")
    ELSE IF kt.k = "raise" THEN Raise(g, kt.err)
    ELSE IF f.first THEN NotFirst(Goto(g, "keytext"))
    ELSE Yield(Goto(g, "keytext"),
               enc.item_separator \o InnerNewline(enc, f.level))

\* one turn of for key, value in items, up to yield item_separator
DictKey(enc, g, f) ==
    IF f.i > Len(f.items) THEN Goto(g, "tail")
    ELSE DictKeyOf(enc, g, f, KeyText(f.items[f.i][1], enc))

\* yield _encoder(key)
DictKeyText(enc, g, f) ==
    Yield(Goto(g, "ksep"), Encoder(enc, KeyText(f.items[f.i][1], enc).text))

\* yield _key_separator
DictKeySeparator(enc, g) == Yield(Goto(g, "value"), enc.key_separator)

DictValueOf(h, enc, g, f, value, limit) ==
    IF IsAtom(value)
    THEN YieldAtom(Advance(g, "key"), <<>>, AtomText(enc, value))
    ELSE PushFrame(Advance(g, "key"),
                   ChildFrame(h, value, InnerLevel(enc, f.level)), limit)

\* the value of the item: its text, or yield from chunks
DictValue(h, enc, g, f, limit) ==
    DictValueOf(h, enc, g, f, f.items[f.i][2], limit)

\* o = _default(o); yield from _iterencode(o, _current_indent_level)
IterDefault(h, enc, g, f, limit) ==
    IF enc.default = "class" THEN Raise(g, E_UNSERIALIZABLE)
    ELSE PushFrame(Goto(g, "del"), Frame("iterencode", h[f.o.id].to, f.level),
                   limit)

\* IterStart calling the default hook without registering the object
IterStart_Unregistered(h, enc, g, f, limit) ==
    IF IsAtom(f.o) THEN YieldAtom(Goto(g, "ret"), <<>>, AtomText(enc, f.o))
    ELSE IF h[f.o.id].t \in {"list", "dict"}
    THEN PushFrame(Goto(g, "ret"), ChildFrame(h, f.o, f.level), limit)
    ELSE IF IsMarked(enc, g, f.o.id) THEN Raise(g, E_CIRCULAR)
    ELSE Goto(g, "default")

\* _iterencode up to its yield or yield from
IterStart(h, enc, g, f, limit) ==
    IF IsAtom(f.o) THEN YieldAtom(Goto(g, "ret"), <<>>, AtomText(enc, f.o))
    ELSE IF h[f.o.id].t \in {"list", "dict"}
    THEN PushFrame(Goto(g, "ret"), ChildFrame(h, f.o, f.level), limit)
    ELSE IF IsMarked(enc, g, f.o.id) THEN Raise(g, E_CIRCULAR)
    ELSE Goto(Mark(enc, g, f.o.id), "default")

\* the generator runs from the place of its innermost frame to the next
StepFrame(h, enc, g, f, limit) ==
    CASE f.pc = "ret" -> PopFrame(g)
      [] f.pc = "del" -> PopFrame(Unmark(enc, g, f.o.id))
      [] f.pc = "tail" -> ContainerTail(enc, g, f)
      [] f.pc = "close" ->
           Yield(Goto(g, "del"),
                 IF f.fn = "list" THEN <<RBRACKET>> ELSE <<RBRACE>>)
      [] f.pc = "start" /\ f.fn = "iterencode" -> IterStart(h, enc, g, f, limit)
      [] f.pc = "default" -> IterDefault(h, enc, g, f, limit)
      [] f.pc = "start" /\ f.fn = "list" -> ListStart(h, enc, g, f)
      [] f.pc = "start" /\ f.fn = "dict" -> DictStart(h, enc, g, f)
      [] f.pc = "item" -> ListItem(h, enc, g, f)
      [] f.pc = "enter" -> ListEnter(h, enc, g, f, limit)
      [] f.pc = "open" -> DictOpen(enc, g, f)
      [] f.pc = "sort" -> DictSort(h, enc, g, f)
      [] f.pc = "key" -> DictKey(enc, g, f)
      [] f.pc = "keytext" -> DictKeyText(enc, g, f)
      [] f.pc = "ksep" -> DictKeySeparator(enc, g)
      [] f.pc = "value" -> DictValue(h, enc, g, f, limit)

Step(h, enc, g, limit) == StepFrame(h, enc, g, Top(g), limit)

\* the generator runs until it yields, returns or raises
RECURSIVE Run(_, _, _, _)
Run(h, enc, g, limit) ==
    IF g.st # "run" THEN g ELSE Run(h, enc, Step(h, enc, g, limit), limit)

\* next(chunks)
Resume(h, enc, g, limit) ==
    Run(h, enc, [g EXCEPT !.st = "run", !.chunk = <<>>], limit)

\* list(chunks): the chunks up to StopIteration or to the exception
RECURSIVE Drain(_, _, _, _, _)
Drained(h, enc, g, acc, limit) ==
    Drain(h, enc, g, IF g.st = "yield" THEN Append(acc, g.chunk) ELSE acc,
          limit)
Drain(h, enc, g, acc, limit) ==
    IF g.st \in {"done", "raise"} THEN [g |-> g, chunks |-> acc]
    ELSE Drained(h, enc, Resume(h, enc, g, limit), acc, limit)

\* ''.join(chunks)
RECURSIVE Join(_)
Join(chunks) == IF chunks = <<>> THEN <<>> ELSE chunks[1] \o Join(Tail(chunks))

----------------------------------------------------------------------------
(* The decoder and its caller.  The caller composes a document from        *)
(* pieces, then calls decode or raw_decode on it; the decoder object lives *)
(* across the calls.                                                       *)

MaxTopPieces == 4
MaxNumPieces == 5
MaxStrPieces == 4
MaxObjPieces == 5
MaxHookPieces == 5
MaxUEscPieces == 6
MaxDispPieces == 3
MaxDigitPieces == 4
MaxDelimPieces == 5
MaxSharedPieces == 3
MaxBack == 1

ESC_d83d == <<BSLASH, CH_u, 100, 56, 51, 100>>
ESC_de00 == <<BSLASH, CH_u, 100, 101, 48, 48>>
ESC_d800 == <<BSLASH, CH_u, 100, 56, 48, 48>>
ESC_0041 == <<BSLASH, CH_u, 48, 48, 52, 49>>

Pieces(su) ==
    CASE su = "top" ->
           { <<CH_1>>, <<SPACE>>, <<LF>>, <<LBRACKET>>, <<RBRACKET>>, <<COMMA>>,
             <<QUOTE, CH_a, QUOTE>>, <<CH_x>> }
      [] su = "num" ->
           { <<MINUS>>, <<CH_0>>, <<51>>, <<DOT>>, <<CH_e>>, <<CH_1>>, <<PLUS>> }
      [] su = "str" ->
           { <<QUOTE>>, <<CH_a>>, <<TAB>>, <<BSLASH>>, <<CH_n>>,
             ESC_d83d, ESC_de00, ESC_d800, ESC_0041,
             <<LBRACE, QUOTE>>, <<QUOTE, COLON, CH_1, RBRACE>> }
      [] su = "obj" ->
           { <<LBRACE>>, <<RBRACE>>, <<COMMA>>, <<SPACE>>, <<CH_1>>,
             <<QUOTE, CH_a, QUOTE, COLON, CH_1>>, <<QUOTE, CH_b, QUOTE>>,
             <<COLON>> }
      [] su = "uesc" ->
           { <<QUOTE, BSLASH, CH_u>>, <<QUOTE>>, <<CH_1>>, <<CH_F>>, <<PLUS>>,
             <<MINUS>>, <<UNDERSCORE>>, <<SPACE>>, <<CH_x>> }
      [] su = "disp" ->
           { <<CH_n, CH_u, 108>>, <<108>>, KW_true, <<MINUS>>, KW_Infinity,
             KW_NaN, <<CH_1>>, <<LBRACKET>>, <<RBRACKET>>, <<COMMA>>,
             <<QUOTE, CH_a, QUOTE>>, <<LBRACE, QUOTE, CH_a, QUOTE, COLON>> }
      [] su = "digit" ->
           { <<MINUS>>, <<CH_0>>, <<CH_1>>, <<DOT>>, <<CH_e>>, <<AI_0 + 2>> }
      [] su = "delim" ->
           { <<LBRACKET>>, <<RBRACKET>>, <<LBRACE>>, <<RBRACE>>, <<COMMA>>,
             <<SPACE>>, <<CH_1>>, <<QUOTE, CH_a, QUOTE, COLON>>, <<COLON>> }
      [] su = "shared" ->
           { <<LBRACE, QUOTE, CH_a, QUOTE, COLON, CH_1>>,
             <<COMMA, QUOTE, CH_b, QUOTE, COLON, CH_1>>, <<RBRACE>>,
             <<LBRACE, QUOTE, CH_b, QUOTE>>, <<LBRACKET>>, <<CH_1>> }
      [] su = "hook" ->
           { <<LBRACE>>, <<RBRACE>>, <<COMMA>>, <<QUOTE, CH_a, QUOTE, COLON, CH_1>>,
             <<QUOTE, CH_a, QUOTE, COLON, 50>>, <<QUOTE, CH_b, QUOTE, COLON>> }

MaxPieces(su) ==
    CASE su = "top" -> MaxTopPieces
      [] su = "num" -> MaxNumPieces
      [] su = "str" -> MaxStrPieces
      [] su = "obj" -> MaxObjPieces
      [] su = "hook" -> MaxHookPieces
      [] su = "uesc" -> MaxUEscPieces
      [] su = "disp" -> MaxDispPieces
      [] su = "digit" -> MaxDigitPieces
      [] su = "delim" -> MaxDelimPieces
      [] su = "shared" -> MaxSharedPieces

NoCall == [op |-> "none", idx |-> 0]
NoOutcome == [k |-> "none"]

\* what the caller sees of a result: the memo is the decoder's, not part of it
Seen(r) ==
    CASE r.k = "ok" -> [k |-> "ok", value |-> r.value, end |-> r.end]
      [] r.k = "err" -> [k |-> "err", msg |-> r.msg, pos |-> r.pos]
      [] r.k = "crash" -> [k |-> "crash", msg |-> r.msg]

\* the decoder as py_make_scanner reads it
Ctx == [strict |-> strict, object_hook |-> object_hook,
        object_pairs_hook |-> object_pairs_hook]

NoEncoded == [k |-> "none"]

\* JSONDecoder.__init__ and JSONEncoder.__init__: a fresh decoder and a
\* fresh encoder, nothing composed, no object made, no call made
InitHooked(suites, stricts, hooks, pairs_hooks, encoders) ==
    /\ suite \in suites
    /\ doc = <<>>
    /\ npieces = 0
    /\ strict \in stricts
    /\ object_hook \in hooks
    /\ object_pairs_hook \in pairs_hooks
    /\ memo = {}
    /\ memo_at_call = {}
    /\ call = NoCall
    /\ outcome = NoOutcome
    /\ heap = <<>>
    /\ encoder \in encoders
    /\ target = VNull
    /\ gen = NoGen
    /\ stream = <<>>
    /\ encoded = NoEncoded

\* the decoder's hooks left at their default, None
InitCodec(suites, stricts, encoders) ==
    InitHooked(suites, stricts, {"None"}, {"None"}, encoders)

InitDecoder(su, stricts) == InitCodec({su}, stricts, {DefaultEncoder})

\* the caller extends the document it is going to submit
Compose ==
    /\ npieces < MaxPieces(suite)
    /\ \E p \in Pieces(suite) : doc' = doc \o p
    /\ npieces' = npieces + 1
    /\ call' = NoCall
    /\ outcome' = NoOutcome
    /\ memo_at_call' = {}
    /\ UNCHANGED <<suite, strict, object_hook, object_pairs_hook, memo, evars>>

\* the caller drops the document of a finished call and starts another
NewDoc ==
    /\ call.op # "none"
    /\ doc' = <<>>
    /\ npieces' = 0
    /\ call' = NoCall
    /\ outcome' = NoOutcome
    /\ memo_at_call' = {}
    /\ UNCHANGED <<suite, strict, object_hook, object_pairs_hook, memo, evars>>

\* doc.count('\n', 0, pos) on the slice t = doc[0:pos]
RECURSIVE CountNewlines(_)
CountNewlines(t) ==
    IF t = <<>> THEN 0
    ELSE (IF t[Len(t)] = LF THEN 1 ELSE 0) + CountNewlines(SubSeq(t, 1, Len(t) - 1))

\* doc.rfind('\n', 0, pos) on the slice t = doc[0:pos]: -1 when there is none
RECURSIVE RFindNewline(_)
RFindNewline(t) ==
    IF t = <<>> THEN -1
    ELSE IF t[Len(t)] = LF THEN Len(t) - 1
    ELSE RFindNewline(SubSeq(t, 1, Len(t) - 1))

\* JSONDecodeError.__init__ with a column that counts from 0
JSONDecodeError_ColumnFromZero(msg, s, pos) ==
    [k |-> "err", msg |-> msg, doc |-> s, pos |-> pos,
     lineno |-> CountNewlines(PySlice(s, 0, pos)) + 1,
     colno |-> pos - RFindNewline(PySlice(s, 0, pos)) - 1]

\* JSONDecodeError.__init__(msg, doc, pos): the exception the caller catches
JSONDecodeError(msg, s, pos) ==
    [k |-> "err", msg |-> msg, doc |-> s, pos |-> pos,
     lineno |-> CountNewlines(PySlice(s, 0, pos)) + 1,
     colno |-> pos - RFindNewline(PySlice(s, 0, pos))]

\* what a call on the text s ends with for its caller
Raised(s, o) == IF o.k = "err" THEN JSONDecodeError(o.msg, s, o.pos) ELSE o

\* a call ends with the result r: the caller sees the value or the error,
\* the decoder keeps the memo
Return(r) ==
    /\ outcome' = Raised(doc, Seen(r))
    /\ memo' = r.memo

\* JSONDecoder.decode(doc)
Decode ==
    /\ call.op = "none"
    /\ Return(DecodeOf(doc, Ctx, memo))
    /\ memo_at_call' = memo
    /\ call' = [op |-> "decode", idx |-> 0]
    /\ UNCHANGED <<suite, doc, npieces, strict, object_hook, object_pairs_hook,
                   evars>>

\* JSONDecoder.raw_decode(doc, idx)
RawDecode ==
    /\ call.op = "none"
    /\ \E idx \in (-MaxBack)..(Len(doc) + 1) :
          /\ Return(RawDecodeOf(doc, idx, Ctx, memo))
          /\ call' = [op |-> "raw_decode", idx |-> idx]
    /\ memo_at_call' = memo
    /\ UNCHANGED <<suite, doc, npieces, strict, object_hook, object_pairs_hook,
                   evars>>

\* the keys another decode call on the same decoder may intern
OtherKeys == {<<CH_a>>, <<CH_x>>}

\* JSONDecoder.decode(doc) while another decode call runs on the same
\* decoder: the two calls share the memo dict and nothing else, and touch
\* it with memo.setdefault(key, key) alone.  Of the keys the other call
\* interns, seen are those in the memo by the time this call looks (taken
\* as there from its start), later those that come after
DecodeOverlapped ==
    /\ call.op = "none"
    /\ \E seen \in SUBSET OtherKeys, later \in SUBSET OtherKeys :
          /\ outcome' = Raised(doc, Seen(DecodeOf(doc, Ctx, memo \cup seen)))
          /\ memo' = DecodeOf(doc, Ctx, memo \cup seen).memo \cup later
          /\ memo_at_call' = memo \cup seen
    /\ call' = [op |-> "decode", idx |-> 0]
    /\ UNCHANGED <<suite, doc, npieces, strict, object_hook, object_pairs_hook,
                   evars>>

NextDecoder == Compose \/ NewDoc \/ Decode \/ RawDecode
NextShared == Compose \/ NewDoc \/ Decode \/ DecodeOverlapped
NextSession == Compose \/ NewDoc \/ Decode
NextDecode == Compose \/ Decode

\* documents of values, brackets and whitespace; decode and raw_decode
Spec == InitDecoder("top", {TRUE}) /\ [][NextDecoder]_vars
\* documents of number characters
SpecNumber == InitDecoder("num", {TRUE}) /\ [][NextDecode]_vars
\* documents of string pieces, strict and not
SpecString == InitDecoder("str", BOOLEAN) /\ [][NextDecode]_vars
\* documents of object pieces
SpecObject == InitDecoder("obj", {TRUE}) /\ [][NextSession]_vars
\* documents of a string that begins with a \u escape, well formed or not
SpecUEscape == InitDecoder("uesc", {TRUE}) /\ [][NextDecode]_vars
\* documents of objects with repeated keys, for a decoder with and without
\* each of the two hooks
\* keywords whole and cut short, constants, signs and brackets
SpecDispatch == InitDecoder("disp", {TRUE}) /\ [][NextDecoder]_vars

\* numbers whole and cut short, with a decimal digit that is not ASCII
SpecDigits == InitDecoder("digit", {TRUE}) /\ [][NextDecoder]_vars

\* arrays and objects with delimiters present, missing and misplaced
SpecDelimiters == InitDecoder("delim", {TRUE}) /\ [][NextDecode]_vars

\* one decoder used for document after document, alone and by two calls
\* at a time
SpecShared == InitDecoder("shared", {TRUE}) /\ [][NextShared]_vars

SpecHooks ==
    /\ InitHooked({"hook"}, {TRUE}, {"None", "hook"}, {"None", "list"}, {DefaultEncoder})
    /\ [][NextDecode]_vars

----------------------------------------------------------------------------
(* The encoder and its caller.  The caller makes lists, dicts and objects  *)
(* of other classes, fills them, and then asks the encoder for one value:  *)
(* with iterencode and next, chunk by chunk, or with encode.  (encode goes *)
(* through _make_iterencode: c_make_encoder is None without the _json      *)
(* extension.)                                                             *)

MaxCycObjects == 2
MaxCycCells == 3
MaxValObjects == 2
MaxValCells == 2
MaxStrLen == 2
MaxEscLen == 2
MaxKeyCells == 3
MaxIndObjects == 2
MaxIndCells == 3
MaxStrmObjects == 2
MaxStrmCells == 2
MaxNanObjects == 2
MaxNanCells == 2

MaxObjects(su) ==
    CASE su = "cyc" -> MaxCycObjects
      [] su = "vals" -> MaxValObjects
      [] su = "strs" -> 1
      [] su = "esc" -> 1
      [] su = "keys" -> 1
      [] su = "ind" -> MaxIndObjects
      [] su = "strm" -> MaxStrmObjects
      [] su = "nan" -> MaxNanObjects

MaxCells(su) ==
    CASE su = "cyc" -> MaxCycCells
      [] su = "vals" -> MaxValCells
      [] su = "strs" -> 1
      [] su = "esc" -> 1
      [] su = "keys" -> MaxKeyCells
      [] su = "ind" -> MaxIndCells
      [] su = "strm" -> MaxStrmCells
      [] su = "nan" -> MaxNanCells

\* the deepest stack a value of the suite needs is two frames an object
\* and one for a scalar; the interpreter's limit is taken just above it
RecursionLimit(su) == 2 * MaxObjects(su) + 2

\* code points that the encoder and the decoder treat differently
StringAlphabet ==
    <<CH_a, QUOTE, BSLASH, TAB, 127, 233, HI_FIRST, LO_FIRST, 128512>>

\* every text of strs with one more code point of the alphabet
Longer(strs) ==
    [n \in 1..(Len(strs) * Len(StringAlphabet)) |->
        Append(strs[((n - 1) \div Len(StringAlphabet)) + 1],
               StringAlphabet[((n - 1) % Len(StringAlphabet)) + 1])]

RECURSIVE StringsOfLen(_)
StringsOfLen(k) == IF k = 0 THEN << <<>> >> ELSE Longer(StringsOfLen(k - 1))

\* the texts over the alphabet of n code points at most, in a row
RECURSIVE Strings(_)
Strings(n) ==
    IF n = 0 THEN StringsOfLen(0) ELSE Strings(n - 1) \o StringsOfLen(n)

StrAtoms == [n \in 1..Len(Strings(MaxStrLen)) |-> VStr(Strings(MaxStrLen)[n])]

\* code points on both sides of every limit of ESCAPE and ESCAPE_ASCII
EscapeAlphabet ==
    <<0, 31, SPACE, CH_a, QUOTE, BSLASH, LF, 126, 127, 128, 233, 65535,
      SUPPLEMENTARY, 128512>>

\* every text of strs with one more code point of the alphabet
LongerOver(alphabet, strs) ==
    [n \in 1..(Len(strs) * Len(alphabet)) |->
        Append(strs[((n - 1) \div Len(alphabet)) + 1],
               alphabet[((n - 1) % Len(alphabet)) + 1])]

\* the texts over the alphabet of n code points at most, in a row
RECURSIVE TextsOfLen(_, _)
TextsOfLen(alphabet, k) ==
    IF k = 0 THEN << <<>> >> ELSE LongerOver(alphabet, TextsOfLen(alphabet, k - 1))

RECURSIVE Texts(_, _)
Texts(alphabet, n) ==
    IF n = 0 THEN TextsOfLen(alphabet, 0)
    ELSE Texts(alphabet, n - 1) \o TextsOfLen(alphabet, n)

StrsOf(texts) == [n \in 1..Len(texts) |-> VStr(texts[n])]

\* the scalars the caller has at hand, in a row
Atoms(su) ==
    CASE su = "cyc" -> <<VInt(1), VNonFinite("NaN")>>
      [] su = "vals" ->
           <<VNull, VBool(TRUE), VBool(FALSE), VInt(0), VInt(-7),
             VReal(FALSE, 15, -1), VReal(FALSE, 2, 0), VReal(TRUE, 0, 0),
             VReal(FALSE, 1, 22), VReal(TRUE, 1, -7),
             VStr(<<>>), VStr(<<CH_a>>)>>
      [] su = "strs" -> StrAtoms
      [] su = "esc" -> StrsOf(Texts(EscapeAlphabet, MaxEscLen))
      [] su = "keys" -> <<VInt(1)>>
      [] su = "ind" -> <<VInt(1), VInt(2)>>
      [] su = "strm" ->
           <<VStr(<<233, QUOTE>>), VInt(1), VReal(FALSE, 15, -1),
             VNonFinite("NaN")>>
      [] su = "nan" ->
           <<VNonFinite("NaN"), VNonFinite("Infinity"),
             VNonFinite("-Infinity"), VReal(FALSE, 15, -1), VStr(<<CH_a>>)>>

\* the keys the caller has at hand, in a row
Keys(su) ==
    CASE su = "cyc" -> <<VStr(<<CH_a>>), VTuple>>
      [] su = "vals" -> <<VStr(<<CH_a>>), VStr(<<QUOTE>>)>>
      [] su = "strs" -> StrAtoms
      [] su = "esc" -> StrsOf(Texts(EscapeAlphabet, 1))
      [] su = "keys" ->
           <<VStr(<<CH_a>>), VStr(<<CH_b>>), VInt(9), VInt(10),
             VReal(FALSE, 95, -1), VBool(TRUE), VNull, VTuple>>
      [] su = "ind" -> <<VStr(<<CH_a>>), VStr(<<CH_b>>)>>
      [] su = "strm" -> <<VStr(<<233>>), VInt(9), VTuple>>
      [] su = "nan" ->
           <<VStr(<<CH_a>>), VNonFinite("NaN"), VNonFinite("-Infinity"),
             VReal(TRUE, 25, -1), VTuple>>

\* the default hook of the encoders that have one returns the object's to
CycleEncoders ==
    {JSONEncoder(sk, TRUE, cc, an, FALSE, NoIndent, NoSeparators, d) :
        sk \in BOOLEAN, cc \in BOOLEAN, an \in BOOLEAN,
        d \in {"class", "convert"}}

\* the default encoder and the one that does not ensure ASCII
EscapeEncoders ==
    {JSONEncoder(FALSE, ea, TRUE, TRUE, FALSE, NoIndent, NoSeparators, "class") :
        ea \in BOOLEAN}

\* skipkeys and sort_keys on and off
KeyEncoders ==
    {JSONEncoder(sk, TRUE, TRUE, TRUE, so, NoIndent, NoSeparators, "class") :
        sk \in BOOLEAN, so \in BOOLEAN}

\* indent = 0, indent = 2 and indent = '\t', separators left to the encoder
IndentEncoders ==
    {JSONEncoder(FALSE, TRUE, TRUE, TRUE, FALSE, ind, NoSeparators, "class") :
        ind \in {IndentSpaces(0), IndentSpaces(2), IndentText(<<TAB>>)}}

\* ensure_ascii and allow_nan on and off, with and without indent, keys
\* that are not basic skipped
StreamEncoders ==
    {JSONEncoder(TRUE, ea, TRUE, an, FALSE, ind, NoSeparators, "class") :
        ea \in BOOLEAN, an \in BOOLEAN, ind \in {NoIndent, IndentSpaces(1)}}

\* allow_nan and skipkeys on and off
NonFiniteEncoders ==
    {JSONEncoder(sk, TRUE, TRUE, an, FALSE, NoIndent, NoSeparators, "class") :
        sk \in BOOLEAN, an \in BOOLEAN}

InitEncoder(suites, encoders) == InitCodec(suites, {TRUE}, encoders)

CellCount(o) == IF o.t = "custom" THEN 1 ELSE Len(o.items)

RECURSIVE HeapCells(_)
HeapCells(h) == IF h = <<>> THEN 0 ELSE CellCount(h[1]) + HeapCells(Tail(h))

\* what the caller can put into a container
Cells == Atoms(suite) \o [i \in 1..Len(heap) |-> Ref(i)]

\* what the caller asks the encoder for: one of the objects it made, or a
\* scalar when it made none
Targets == IF heap = <<>> THEN Atoms(suite) ELSE [i \in 1..Len(heap) |-> Ref(i)]

\* the caller is still making the value: no generator, no encode yet
Building == gen.st = "none" /\ encoded.k = "none"

\* lst = []
NewList ==
    /\ Building
    /\ Len(heap) < MaxObjects(suite)
    /\ heap' = Append(heap, EmptyList)
    /\ UNCHANGED <<dvars, encoder, target, gen, stream, encoded>>

\* dct = {}
NewDict ==
    /\ Building
    /\ Len(heap) < MaxObjects(suite)
    /\ heap' = Append(heap, EmptyDict)
    /\ UNCHANGED <<dvars, encoder, target, gen, stream, encoded>>

\* an object of another class, which the hook turns into a value made
\* before it or into itself
NewCustom ==
    /\ Building
    /\ Len(heap) < MaxObjects(suite)
    /\ HeapCells(heap) < MaxCells(suite)
    /\ \E n \in 1..(Len(Cells) + 1) :
          heap' = Append(heap, CustomObject(Append(Cells, Ref(Len(heap) + 1))[n]))
    /\ UNCHANGED <<dvars, encoder, target, gen, stream, encoded>>

\* lst.append(c)
ListAppend ==
    /\ Building
    /\ HeapCells(heap) < MaxCells(suite)
    /\ \E i \in 1..Len(heap), c \in 1..Len(Cells) :
          /\ heap[i].t = "list"
          /\ heap' = [heap EXCEPT ![i].items = Append(@, Cells[c])]
    /\ UNCHANGED <<dvars, encoder, target, gen, stream, encoded>>

\* key in dct
HasKey(items, key) == \E i \in 1..Len(items) : PyKeyEq(items[i][1], key)

\* dct[k] = c, for a key the dict does not have yet
DictSetItem ==
    /\ Building
    /\ HeapCells(heap) < MaxCells(suite)
    /\ \E i \in 1..Len(heap), k \in 1..Len(Keys(suite)), c \in 1..Len(Cells) :
          /\ heap[i].t = "dict"
          /\ ~HasKey(heap[i].items, Keys(suite)[k])
          /\ heap' = [heap EXCEPT
                         ![i].items = SetItemOf(@, Keys(suite)[k], Cells[c])]
    /\ UNCHANGED <<dvars, encoder, target, gen, stream, encoded>>

\* chunks = JSONEncoder.iterencode(o)
IterEncode ==
    /\ Building
    /\ \E o \in 1..Len(Targets) :
          /\ target' = Targets[o]
          /\ gen' = NewGen(Targets[o])
    /\ stream' = <<>>
    /\ UNCHANGED <<dvars, heap, encoder, encoded>>

\* next(chunks): the caller keeps the chunk it gets
NextChunk ==
    /\ gen.st \in {"new", "yield"}
    /\ gen' = Resume(heap, encoder, gen, RecursionLimit(suite))
    /\ stream' = IF gen'.st = "yield" THEN Append(stream, gen'.chunk)
                 ELSE stream
    /\ UNCHANGED <<dvars, heap, encoder, target, encoded>>

\* what encode ends with: the text, or the exception
EncodeResult(d) ==
    [g |-> d.g, chunks |-> d.chunks,
     r |-> IF d.g.st = "done" THEN [k |-> "ok", text |-> Join(d.chunks)]
           ELSE [k |-> "err", msg |-> d.g.err]]

\* encode with the str case always escaped to ASCII
EncodeOf_StrAlwaysAscii(h, enc, o, limit) ==
    IF o.t = "str"
    THEN [g |-> NoGen, chunks |-> <<>>,
          r |-> [k |-> "ok", text |-> py_encode_basestring_ascii(o.v)]]
    ELSE EncodeResult(Drain(h, enc, NewGen(o), <<>>, limit))

\* JSONEncoder.encode(o): a str is escaped at once, anything else goes
\* through list(iterencode(o)) and ''.join
EncodeOf(h, enc, o, limit) ==
    IF o.t = "str"
    THEN [g |-> NoGen, chunks |-> <<>>,
          r |-> [k |-> "ok", text |-> Encoder(enc, o.v)]]
    ELSE EncodeResult(Drain(h, enc, NewGen(o), <<>>, limit))

\* the caller takes the text as the document it has for the decoder
Encoded(o, e) ==
    /\ target' = o
    /\ gen' = e.g
    /\ stream' = e.chunks
    /\ encoded' = e.r
    /\ doc' = IF e.r.k = "ok" THEN e.r.text ELSE doc

\* text = JSONEncoder.encode(o)
Encode ==
    /\ Building
    /\ \E o \in 1..Len(Targets) :
          Encoded(Targets[o],
                  EncodeOf(heap, encoder, Targets[o], RecursionLimit(suite)))
    /\ UNCHANGED <<suite, npieces, strict, object_hook, object_pairs_hook,
                   memo, memo_at_call, call, outcome, heap, encoder>>

\* JSONDecoder.decode(text) on the text encode returned
DecodeBack == encoded.k = "ok" /\ Decode

NextCycle ==
    \/ NewList
    \/ NewDict
    \/ NewCustom
    \/ ListAppend
    \/ DictSetItem
    \/ IterEncode
    \/ NextChunk
    \/ Encode

NextRoundTrip ==
    NewList \/ NewDict \/ ListAppend \/ DictSetItem \/ Encode \/ DecodeBack

NextEncode == NewList \/ NewDict \/ ListAppend \/ DictSetItem \/ Encode

NextStream ==
    \/ NewList
    \/ NewDict
    \/ ListAppend
    \/ DictSetItem
    \/ IterEncode
    \/ NextChunk
    \/ Encode

\* values that may hold themselves, the encoder's options varied
SpecCycle == InitEncoder({"cyc"}, CycleEncoders) /\ [][NextCycle]_vars
\* values of the JSON types, the default encoder and the default decoder
SpecRoundTrip ==
    InitEncoder({"strs", "vals"}, {DefaultEncoder}) /\ [][NextRoundTrip]_vars
\* strings alone, in a list and in a dict, with and without ensure_ascii
SpecEscape == InitEncoder({"esc"}, EscapeEncoders) /\ [][NextEncode]_vars
\* dicts with keys of every kind, sorted or not, keys skipped or not
SpecKeys == InitEncoder({"keys"}, KeyEncoders) /\ [][NextEncode]_vars
\* lists and dicts in each other, encoded with an indent
SpecIndent == InitEncoder({"ind"}, IndentEncoders) /\ [][NextEncode]_vars
\* reals that are not finite as values and as keys, allow_nan on and off
SpecNonFinite == InitEncoder({"nan"}, NonFiniteEncoders) /\ [][NextEncode]_vars
\* one value either pulled chunk by chunk from iterencode or given to encode
SpecStream == InitEncoder({"strm"}, StreamEncoders) /\ [][NextStream]_vars

----------------------------------------------------------------------------
(* Properties of the decoder.                                              *)

\* the offset of the first character at or after p that is not whitespace,
\* Len(s) when there is none
FirstNonWs(s, p) ==
    IF \E j \in (p + 1)..Len(s) : s[j] \notin WHITESPACE_STR
    THEN (CHOOSE j \in (p + 1)..Len(s) :
              /\ s[j] \notin WHITESPACE_STR
              /\ \A i \in (p + 1)..(j - 1) : s[i] \in WHITESPACE_STR) - 1
    ELSE Len(s)

IsErr(o, msg, pos) == o.k = "err" /\ o.msg = msg /\ o.pos = pos

\* C1: decode succeeds only on one value between optional whitespace, with
\* that value; a value followed by a non-whitespace character is ExtraData at
\* the offset of the first such character.
C1_DecodeOneValue ==
    call.op = "decode" =>
        LET r == RawDecodeOf(doc, FirstNonWs(doc, 0), Ctx, memo_at_call)
        IN  /\ outcome.k = "ok" =>
                  /\ r.k = "ok"
                  /\ outcome.value = r.value
                  /\ \A j \in (r.end + 1)..Len(doc) : doc[j] \in WHITESPACE_STR
            /\ (r.k = "ok" /\ FirstNonWs(doc, r.end) < Len(doc)) =>
                  IsErr(outcome, E_EXTRA, FirstNonWs(doc, r.end))

\* decode("1 1") has raised ExtraData at offset 2
C1_Witness ==
    /\ call.op = "decode"
    /\ doc = <<CH_1, SPACE, CH_1>>
    /\ IsErr(outcome, E_EXTRA, 2)

C6_RawDecodeOneValue ==
    (call.op = "raw_decode" /\ call.idx >= 0) =>
        LET r == ScanOnce(doc, call.idx, Ctx, memo_at_call)
        IN  /\ r.k = "ok" =>
                  /\ outcome = [k |-> "ok", value |-> r.value, end |-> r.end]
                  /\ call.idx < r.end /\ r.end <= Len(doc)
                  /\ Seen(RawDecodeOf(PySlice(doc, 0, r.end), call.idx, Ctx,
                                      memo_at_call)) = outcome
            /\ r.k = "stop" => IsErr(outcome, E_VALUE, call.idx)
            /\ (outcome.k = "err" /\ outcome.msg = E_VALUE) =>
                  ScanOnce(doc, outcome.pos, Ctx, memo_at_call).k = "stop"

\* raw_decode("1,1", 0) has returned the first 1 and the offset 1, with text
\* left after it
C6_Witness ==
    /\ call = [op |-> "raw_decode", idx |-> 0]
    /\ doc = <<CH_1, COMMA, CH_1>>
    /\ outcome = [k |-> "ok", value |-> VInt(1), end |-> 1]

HasFracOrExp(t) == \E i \in 1..Len(t) : t[i] \in {DOT, CH_e, CH_E}

\* C7: a number with a fraction or an exponent part decodes to the real
\* float() makes of the whole matched text; a number with neither decodes to
\* the integer int() makes of it, minus sign included.
C7_NumericClassification ==
    (call.op = "decode" /\ outcome.k = "ok") =>
        IF HasFracOrExp(doc)
        THEN outcome.value.t \in {"real", "nonfinite"} /\ outcome.value = PyFloat(doc)
        ELSE outcome.value = VInt(SignedDigits(doc))

\* "3e1" has decoded to the real 3 * 10^1
C7_Witness ==
    /\ call.op = "decode"
    /\ doc = <<51, CH_e, CH_1>>
    /\ outcome.k = "ok"
    /\ outcome.value = VReal(FALSE, 3, 1)

\* "-0" has decoded to the integer zero
C7_WitnessMinusZero ==
    /\ call.op = "decode"
    /\ doc = <<MINUS, CH_0>>
    /\ outcome.k = "ok"
    /\ outcome.value = VInt(0)

\* the code units a string body of \uXXXX escapes and letters a spells, each
\* with whether an escape spelled it; <<[bad |-> TRUE]>> for any other body
RECURSIVE EscapeUnits(_)
EscapeUnits(body) ==
    IF body = <<>> THEN <<>>
    ELSE IF body[1] = CH_a
         THEN <<[esc |-> FALSE, v |-> CH_a]>> \o EscapeUnits(Tail(body))
    ELSE IF /\ Len(body) >= 6
            /\ body[1] = BSLASH /\ body[2] = CH_u
            /\ \A i \in 3..6 : body[i] \in (CH_0..CH_9) \cup (CH_a..CH_f)
         THEN <<[esc |-> TRUE, v |-> HexFold(SubSeq(body, 3, 6), 0)]>>
              \o EscapeUnits(SubSeq(body, 7, Len(body)))
    ELSE <<[bad |-> TRUE]>>

IsHighEscape(u) == u.esc /\ u.v \in 55296..56319
IsLowEscape(u) == u.esc /\ u.v \in 56320..57343

\* the code points the units denote: a high-surrogate escape and the
\* low-surrogate escape right after it make one, every other unit is its own
RECURSIVE PairUp(_)
PairUp(units) ==
    IF units = <<>> THEN <<>>
    ELSE IF Len(units) >= 2 /\ IsHighEscape(units[1]) /\ IsLowEscape(units[2])
         THEN <<65536 + (units[1].v - 55296) * 1024 + (units[2].v - 56320)>>
              \o PairUp(Tail(Tail(units)))
    ELSE <<units[1].v>> \o PairUp(Tail(units))

IsQuoted(s) == Len(s) >= 2 /\ s[1] = QUOTE /\ s[Len(s)] = QUOTE
Body(s) == SubSeq(s, 2, Len(s) - 1)

\* C8: in a string of \uXXXX escapes a high surrogate and the low surrogate
\* right after it decode to one code point and both are consumed; any other
\* surrogate decodes to itself, and the escape after it is scanned on its own.
C8_SurrogatePairs ==
    (call.op = "decode" /\ IsQuoted(doc)) =>
        LET units == EscapeUnits(Body(doc))
        IN  (\A i \in 1..Len(units) : "bad" \notin DOMAIN units[i]) =>
                outcome = [k |-> "ok", value |-> VStr(PairUp(units)), end |-> Len(doc)]

\* "\ud83d\ude00" has decoded to the one code point U+1F600
C8_Witness ==
    /\ call.op = "decode"
    /\ doc = <<QUOTE>> \o ESC_d83d \o ESC_de00 \o <<QUOTE>>
    /\ outcome = [k |-> "ok", value |-> VStr(<<128512>>), end |-> 14]

\* "\ud800A" has decoded to the lone surrogate and the letter A
C8_WitnessUnpaired ==
    /\ call.op = "decode"
    /\ doc = <<QUOTE>> \o ESC_d800 \o ESC_0041 \o <<QUOTE>>
    /\ outcome = [k |-> "ok", value |-> VStr(<<55296, 65>>), end |-> 14]

\* a string body of raw characters: no quote and no backslash
IsRaw(body) == \A i \in 1..Len(body) : body[i] \notin {QUOTE, BSLASH}
HasControl(body) == \E i \in 1..Len(body) : body[i] \in 0..31

KEY_OPEN == <<LBRACE, QUOTE>>
KEY_CLOSE == <<QUOTE, COLON, CH_1, RBRACE>>
IsKeyed(s) ==
    /\ Len(s) >= 6
    /\ SubSeq(s, 1, 2) = KEY_OPEN
    /\ SubSeq(s, Len(s) - 3, Len(s)) = KEY_CLOSE
KeyBody(s) == SubSeq(s, 3, Len(s) - 4)

\* what C9 asks of the outcome for a string with the raw body, v being the
\* value the document denotes when the body is kept as it is
StrictnessHolds(body, v) ==
    IsRaw(body) =>
        /\ (strict /\ HasControl(body)) =>
              (outcome.k = "err" /\ outcome.msg = E_CONTROL)
        /\ (~strict \/ ~HasControl(body)) =>
              outcome = [k |-> "ok", value |-> v, end |-> Len(doc)]

\* C9: a raw control character in a string, value or object key, is an
\* InvalidControlCharacter error for a strict decoder; a non-strict decoder
\* keeps it in the decoded string and scans on to the closing quote.
C9_Strictness ==
    call.op = "decode" =>
        /\ IsQuoted(doc) => StrictnessHolds(Body(doc), VStr(Body(doc)))
        /\ IsKeyed(doc) =>
              StrictnessHolds(KeyBody(doc), VObj(<<<<VStr(KeyBody(doc)), VInt(1)>>>>))

\* the strict decoder has refused "a<TAB>"
C9_Witness ==
    /\ call.op = "decode"
    /\ strict
    /\ doc = <<QUOTE, CH_a, TAB, QUOTE>>
    /\ outcome.k = "err" /\ outcome.msg = E_CONTROL

\* the non-strict decoder has kept the tab of the key in {"<TAB>":1}
C9_WitnessKeyKept ==
    /\ call.op = "decode"
    /\ ~strict
    /\ doc = KEY_OPEN \o <<TAB>> \o KEY_CLOSE
    /\ outcome.k = "ok"
    /\ outcome.value = VObj(<<<<VStr(<<TAB>>), VInt(1)>>>>)

\* whether the ',' at offset c of s follows the key/value pairs of the object
\* that opens at offset b: closed there instead, the object is complete
AfterPair(s, b, c) ==
    /\ b < c /\ c < Len(s)
    /\ s[b + 1] = LBRACE
    /\ s[c + 1] = COMMA
    /\ LET r == DecodeOf(SubSeq(s, 1, c) \o <<RBRACE>>, Ctx, memo_at_call)
       IN  r.k = "ok" /\ r.value.t = "obj" /\ r.value.v # <<>>

\* C10: in an object, when the first character that is not whitespace after
\* the ',' that follows a key/value pair is not '"' (a '}' or the end of the
\* input included), the error is ExpectingPropertyName at that character's
\* offset; so it is after the '{' for a character that is neither '"' nor '}'.
C10_NoTrailingComma ==
    (call.op = "decode" /\ FirstNonWs(doc, 0) < Len(doc)
                        /\ doc[FirstNonWs(doc, 0) + 1] = LBRACE) =>
        LET b == FirstNonWs(doc, 0)
            q == FirstNonWs(doc, b + 1)
        IN  /\ (q = Len(doc) \/ doc[q + 1] \notin {QUOTE, RBRACE}) =>
                  IsErr(outcome, E_PROPNAME, q)
            /\ \A c \in (b + 1)..(Len(doc) - 1) :
                  LET p == FirstNonWs(doc, c + 1)
                  IN  (AfterPair(doc, b, c) /\ (p = Len(doc) \/ doc[p + 1] # QUOTE)) =>
                          IsErr(outcome, E_PROPNAME, p)

\* {"a":1,} has been refused at the '}', offset 7
C10_Witness ==
    /\ call.op = "decode"
    /\ doc = <<LBRACE, QUOTE, CH_a, QUOTE, COLON, CH_1, COMMA, RBRACE>>
    /\ IsErr(outcome, E_PROPNAME, 7)

\* {1 has been refused at the 1, offset 1
C10_WitnessAfterBrace ==
    /\ call.op = "decode"
    /\ doc = <<LBRACE, CH_1>>
    /\ IsErr(outcome, E_PROPNAME, 1)

\* whether the ',' at offset c of s follows the elements of the array that
\* opens at offset b: closed there instead, the array is complete
AfterElement(s, b, c) ==
    /\ b < c /\ c < Len(s)
    /\ s[b + 1] = LBRACKET
    /\ s[c + 1] = COMMA
    /\ LET r == DecodeOf(SubSeq(s, 1, c) \o <<RBRACKET>>, Ctx, memo_at_call)
       IN  r.k = "ok" /\ r.value.t = "arr" /\ r.value.v # <<>>

\* C11: in an array, when no value starts at the first offset that is not
\* whitespace after the ',' that follows an element (a ']' there or the end of
\* the input included), the error is ExpectingValue at that offset.
C11_NoTrailingCommaInArray ==
    (call.op = "decode" /\ FirstNonWs(doc, 0) < Len(doc)) =>
        \A c \in (FirstNonWs(doc, 0) + 1)..(Len(doc) - 1) :
            LET p == FirstNonWs(doc, c + 1)
            IN  (/\ AfterElement(doc, FirstNonWs(doc, 0), c)
                 /\ ScanOnce(doc, p, Ctx, memo_at_call).k = "stop") =>
                    IsErr(outcome, E_VALUE, p)

\* [1,] has been refused at the ']', offset 3
C11_Witness ==
    /\ call.op = "decode"
    /\ doc = <<LBRACKET, CH_1, COMMA, RBRACKET>>
    /\ IsErr(outcome, E_VALUE, 3)

\* "[1, " has been refused at the end of the input, offset 4
C11_WitnessEndOfInput ==
    /\ call.op = "decode"
    /\ doc = <<LBRACKET, CH_1, COMMA, SPACE>>
    /\ IsErr(outcome, E_VALUE, 4)

\* the text of a value made of integers and of the lists of pairs the
\* ordered-pairs hook returned, <<0>> in place of any other value
RECURSIVE RenderPairs(_)
RECURSIVE RenderItems(_)
RenderPairs(v) ==
    CASE v.t = "int" -> IF v.v \in 0..9 THEN <<CH_0 + v.v>> ELSE <<0>>
      [] v.t = "pairs" -> <<LBRACE>> \o RenderItems(v.v) \o <<RBRACE>>
      [] OTHER -> <<0>>

RenderItems(pairs) ==
    IF pairs = <<>> THEN <<>>
    ELSE (IF pairs[1][1].t = "str"
          THEN <<QUOTE>> \o pairs[1][1].v \o <<QUOTE, COLON>> ELSE <<0>>)
         \o RenderPairs(pairs[1][2])
         \o (IF Len(pairs) > 1 THEN <<COMMA>> ELSE <<>>)
         \o RenderItems(Tail(pairs))

\* the value in which every list of pairs of v is replaced by what the
\* object hook returns for the mapping built from it
RECURSIVE HookedPairs(_)
HookedPairs(v) ==
    IF v.t # "pairs" THEN v
    ELSE CallObjectHook(PyDict([i \in 1..Len(v.v) |->
                                   <<v.v[i][1], HookedPairs(v.v[i][2])>>]))

\* the decoder of the state with other hooks
CtxWith(hook, pairs_hook) ==
    [strict |-> strict, object_hook |-> hook, object_pairs_hook |-> pairs_hook]

IsObjectText(s) == s # <<>> /\ s[1] = LBRACE

\* C12: with an ordered-pairs hook every decoded object, the empty one
\* included, is what the hook returns for the list of its (key, value) pairs
\* in source order, repeated keys kept, and the object hook is not called even
\* when configured; with the object hook alone every object, the empty one
\* included, is what that hook returns, once, for the mapping built from its
\* pairs.
C12_ConstructionHooks ==
    (call.op = "decode" /\ outcome.k = "ok" /\ IsObjectText(doc)) =>
        LET listed == DecodeOf(doc, CtxWith("None", "list"), memo_at_call).value
        IN  /\ object_pairs_hook # "None" =>
                  /\ RenderPairs(outcome.value) = doc
                  /\ outcome.value = listed
            /\ (object_pairs_hook = "None" /\ object_hook # "None") =>
                  outcome.value = HookedPairs(listed)

\* with both hooks configured {"a":1,"a":2} has decoded to the list of its
\* two pairs
C12_Witness ==
    /\ call.op = "decode"
    /\ object_hook = "hook" /\ object_pairs_hook = "list"
    /\ doc = <<LBRACE, QUOTE, CH_a, QUOTE, COLON, CH_1, COMMA,
               QUOTE, CH_a, QUOTE, COLON, 50, RBRACE>>
    /\ outcome.k = "ok"
    /\ outcome.value = CallPairsHook(<<<<VStr(<<CH_a>>), VInt(1)>>,
                                       <<VStr(<<CH_a>>), VInt(2)>>>>)

\* with the object hook alone {"b":{}} has decoded to the hook's value for
\* the mapping of b to the hook's value for the empty mapping
C12_WitnessEmptyObject ==
    /\ call.op = "decode"
    /\ object_hook = "hook" /\ object_pairs_hook = "None"
    /\ doc = <<LBRACE, QUOTE, CH_b, QUOTE, COLON, LBRACE, RBRACE, RBRACE>>
    /\ outcome.k = "ok"
    /\ outcome.value =
          CallObjectHook(VObj(<<<<VStr(<<CH_b>>), CallObjectHook(VObj(<<>>))>>>>))

\* the index of the last pair of the list with the key
LastOf(pairs, key) ==
    CHOOSE i \in 1..Len(pairs) :
        /\ pairs[i][1] = key
        /\ \A j \in (i + 1)..Len(pairs) : pairs[j][1] # key

\* whether the mapping d has each key of the list of pairs once, with the
\* value of the key's last pair, objects among the values likewise
RECURSIVE LastWriteWins(_, _)
LastWriteWins(d, listed) ==
    IF listed.t # "pairs" THEN d.t = listed.t /\ d = listed
    ELSE /\ d.t = "obj"
         /\ \A i, j \in 1..Len(d.v) : d.v[i][1] = d.v[j][1] => i = j
         /\ \A j \in 1..Len(listed.v) :
               \E i \in 1..Len(d.v) : d.v[i][1] = listed.v[j][1]
         /\ \A i \in 1..Len(d.v) :
               /\ \E j \in 1..Len(listed.v) : listed.v[j][1] = d.v[i][1]
               /\ LastWriteWins(d.v[i][2],
                                listed.v[LastOf(listed.v, d.v[i][1])][2])

\* C13: without an ordered-pairs hook the decoded object has each key of
\* the source text once, mapped to the value of the key's last occurrence.
C13_LastWriteWins ==
    (/\ call.op = "decode" /\ outcome.k = "ok" /\ IsObjectText(doc)
     /\ object_pairs_hook = "None" /\ object_hook = "None") =>
        LastWriteWins(outcome.value,
                      DecodeOf(doc, CtxWith("None", "list"), memo_at_call).value)

\* {"a":1,"a":2} has decoded to the mapping of a to 2
C13_Witness ==
    /\ call.op = "decode"
    /\ object_pairs_hook = "None" /\ object_hook = "None"
    /\ doc = <<LBRACE, QUOTE, CH_a, QUOTE, COLON, CH_1, COMMA,
               QUOTE, CH_a, QUOTE, COLON, 50, RBRACE>>
    /\ outcome.k = "ok"
    /\ outcome.value = VObj(<<<<VStr(<<CH_a>>), VInt(2)>>>>)

U_OPEN == <<QUOTE, BSLASH, CH_u>>

\* the document is a string that begins with \u
BeginsWithU(s) == Len(s) >= 3 /\ SubSeq(s, 1, 3) = U_OPEN

\* four hexadecimal digits follow the \u
FourHexDigits(s) ==
    /\ Len(s) >= 7
    /\ \A i \in 4..7 : s[i] \in (CH_0..CH_9) \cup (CH_a..CH_f) \cup (CH_A..CH_F)

\* C19: after \u the string scanner accepts four hexadecimal digits and
\* nothing else: with fewer than four characters left, or with a character
\* among the four that is no hexadecimal digit, the decode raises
\* "Invalid \uXXXX escape" and returns no value.
C19_UnicodeEscapeValidation ==
    (call.op = "decode" /\ BeginsWithU(doc) /\ ~FourHexDigits(doc)) =>
        (outcome.k = "err" /\ outcome.msg = E_UESCAPE)

\* the same for the escapes int(esc, 16) refuses: those that are not digits
\* with single underscores inside, after a sign and between whitespace
C19_RefusedByInt ==
    (/\ call.op = "decode" /\ BeginsWithU(doc)
     /\ ~DecodeUXXXX(doc, 2).ok) =>
        (outcome.k = "err" /\ outcome.msg = E_UESCAPE /\ outcome.pos = 2)

\* "\u+1F1" has decoded to the one code point U+01F1
C19_WitnessSign ==
    /\ call.op = "decode"
    /\ doc = U_OPEN \o <<PLUS, CH_1, CH_F, CH_1, QUOTE>>
    /\ outcome.k = "ok"
    /\ outcome.value = VStr(<<497>>)

\* "\u-1F1" has ended in the ValueError of chr(-0x1F1)
C19_WitnessMinus ==
    /\ call.op = "decode"
    /\ doc = U_OPEN \o <<MINUS, CH_1, CH_F, CH_1, QUOTE>>
    /\ outcome.k = "crash"

\* "\u1x11" has been refused as an invalid escape
C19_WitnessRefused ==
    /\ call.op = "decode"
    /\ doc = U_OPEN \o <<CH_1, CH_x, CH_1, CH_1, QUOTE>>
    /\ IsErr(outcome, E_UESCAPE, 2)

\* the offsets of text[0:pos], as a slice takes them
SliceBefore(s, pos) ==
    IF pos < 0 THEN 0..(Len(s) + pos - 1)
    ELSE IF pos > Len(s) THEN 0..(Len(s) - 1)
    ELSE 0..(pos - 1)

NewlinesBefore(s, pos) == {i \in SliceBefore(s, pos) : s[i + 1] = LF}

\* C20: a decode error carries the whole text, the offset pos, the line
\* (the number of newlines in text[0:pos] plus one) and the column (pos
\* minus the offset of the last newline in text[0:pos], pos + 1 when there
\* is no newline there).
C20_ErrorLocation ==
    outcome.k = "err" =>
        /\ outcome.doc = doc
        /\ outcome.lineno = Cardinality(NewlinesBefore(doc, outcome.pos)) + 1
        /\ \A i \in NewlinesBefore(doc, outcome.pos) :
              (\A j \in NewlinesBefore(doc, outcome.pos) : j <= i) =>
                  outcome.colno = outcome.pos - i
        /\ NewlinesBefore(doc, outcome.pos) = {} => outcome.colno = outcome.pos + 1

\* the x of the second line of "1", newline, "x" has been refused as extra
\* data at offset 2: line 2, column 1
C20_Witness ==
    /\ call.op = "decode"
    /\ doc = <<CH_1, LF, CH_x>>
    /\ outcome.k = "err"
    /\ outcome.msg = E_EXTRA
    /\ outcome.pos = 2 /\ outcome.lineno = 2 /\ outcome.colno = 1

\* "[1" has been refused at offset 2 of the one line: line 1, column 3
C20_WitnessOneLine ==
    /\ call.op = "decode"
    /\ doc = <<LBRACKET, CH_1>>
    /\ outcome.k = "err"
    /\ outcome.pos = 2 /\ outcome.lineno = 1 /\ outcome.colno = 3

\* the text s has the word w at offset idx
HasAt(s, idx, w) ==
    idx >= 0 /\ idx + Len(w) <= Len(s) /\ SubSeq(s, idx + 1, idx + Len(w)) = w

\* a number begins at offset idx: a digit, or '-' and a digit
NumberBegins(s, idx) ==
    \/ idx < Len(s) /\ IsAsciiDigit(s[idx + 1])
    \/ idx + 1 < Len(s) /\ s[idx + 1] = MINUS /\ IsAsciiDigit(s[idx + 2])

\* what the scanner makes of offset idx, by the first alternative that
\* applies: the kind of value, or "none"
DispatchAt(s, idx) ==
    IF idx >= Len(s) THEN "none"
    ELSE IF s[idx + 1] = QUOTE THEN "str"
    ELSE IF s[idx + 1] = LBRACE THEN "obj"
    ELSE IF s[idx + 1] = LBRACKET THEN "arr"
    ELSE IF HasAt(s, idx, <<110, 117, 108, 108>>) THEN "null"
    ELSE IF HasAt(s, idx, <<116, 114, 117, 101>>) THEN "true"
    ELSE IF HasAt(s, idx, <<102, 97, 108, 115, 101>>) THEN "false"
    ELSE IF NumberBegins(s, idx) THEN "number"
    ELSE IF HasAt(s, idx, <<78, 97, 78>>) THEN "NaN"
    ELSE IF HasAt(s, idx, <<73, 110, 102, 105, 110, 105, 116, 121>>)
         THEN "Infinity"
    ELSE IF HasAt(s, idx, <<45, 73, 110, 102, 105, 110, 105, 116, 121>>)
         THEN "-Infinity"
    ELSE "none"

\* the outcome o is the value v ending at offset end
IsOk(o, v, end) == o.k = "ok" /\ o.value.t = v.t /\ o.value = v /\ o.end = end

\* the outcome of a scan at idx is the one of its alternative
Dispatched(s, idx, o, kind) ==
    CASE kind = "none" -> IsErr(o, E_VALUE, idx)
      [] kind \in {"str", "obj", "arr"} ->
           /\ o.k = "ok" => o.value.t = kind
           /\ ~IsErr(o, E_VALUE, idx)
      [] kind = "null" -> IsOk(o, VNull, idx + 4)
      [] kind = "true" -> IsOk(o, VBool(TRUE), idx + 4)
      [] kind = "false" -> IsOk(o, VBool(FALSE), idx + 5)
      [] kind = "number" -> o.k = "ok" /\ o.value.t \in {"int", "real"}
      [] kind = "NaN" -> IsOk(o, VNonFinite("NaN"), idx + 3)
      [] kind = "Infinity" -> IsOk(o, VNonFinite("Infinity"), idx + 8)
      [] kind = "-Infinity" -> IsOk(o, VNonFinite("-Infinity"), idx + 9)

\* the offset right after the text's first '[' or first ':'
FirstNested(s) ==
    IF s[1] = LBRACKET THEN 1 ELSE 5

\* C23: a scan at offset idx takes the first alternative that applies among
\* string, object, array, the whole words null, true and false, a number,
\* and the constants NaN, Infinity and -Infinity; when none applies (a word
\* cut short, a lone '-') or idx is at or past the end of the text, the
\* caller reports "Expecting value" at exactly idx: raw_decode for its
\* start offset, an array for its first element, an object for the value
\* of its first pair.
C23_Dispatch ==
    /\ (call.op = "raw_decode" /\ call.idx >= 0)
          => Dispatched(doc, call.idx, outcome, DispatchAt(doc, call.idx))
    /\ (/\ call.op = "decode"
        /\ doc # <<>>
        /\ doc[1] \in {LBRACKET, LBRACE}
        /\ ~HasAt(doc, 1, <<RBRACKET>>)
        /\ DispatchAt(doc, FirstNested(doc)) = "none")
          => IsErr(outcome, E_VALUE, FirstNested(doc))

\* a scan of "nul" at offset 0 has been refused at offset 0
C23_Witness ==
    /\ call.op = "raw_decode"
    /\ call.idx = 0
    /\ doc = <<CH_n, CH_u, 108>>
    /\ IsErr(outcome, E_VALUE, 0)

\* a scan of "1-Infinity" at offset 1 has given -Infinity up to offset 10
C23_WitnessConstant ==
    /\ call.op = "raw_decode"
    /\ call.idx = 1
    /\ doc = <<CH_1>> \o KW_NegInfinity
    /\ IsOk(outcome, VNonFinite("-Infinity"), 10)

\* decode of {"a":- has been refused at the lone '-', offset 5
C23_WitnessNested ==
    /\ call.op = "decode"
    /\ doc = <<LBRACE, QUOTE, CH_a, QUOTE, COLON, MINUS>>
    /\ IsErr(outcome, E_VALUE, 5)

\* a scan of "null" at its end, offset 4, has been refused at offset 4
C23_WitnessAtEnd ==
    /\ call.op = "raw_decode"
    /\ call.idx = 4
    /\ doc = KW_null
    /\ IsErr(outcome, E_VALUE, 4)

\* a digit: 0 to 9, or with wide any decimal digit of Unicode
DigitOf(c, wide) == IF wide THEN IsDigit(c) ELSE c \in 48..57

AllDigits(t, wide) == t # <<>> /\ \A i \in 1..Len(t) : DigitOf(t[i], wide)

\* 0|[1-9]digits
IntPart(t, wide) ==
    \/ t = <<48>>
    \/ /\ t # <<>>
       /\ t[1] \in 49..57
       /\ \A i \in 2..Len(t) : DigitOf(t[i], wide)

\* (.digits)?
FracPart(t, wide) == t = <<>> \/ (t[1] = DOT /\ AllDigits(Tail(t), wide))

\* ([eE][-+]?digits)?
ExpPart(t, wide) ==
    \/ t = <<>>
    \/ /\ Len(t) >= 2
       /\ t[1] \in {CH_e, CH_E}
       /\ \/ AllDigits(Tail(t), wide)
          \/ t[2] \in {MINUS, PLUS} /\ AllDigits(Tail(Tail(t)), wide)

\* the text t is -?(0|[1-9]digits)(.digits)?([eE][-+]?digits)?
IsNumber(t, wide) ==
    \E a \in 0..1, b \in 0..Len(t), c \in 0..Len(t) :
        /\ a <= b /\ b <= c
        /\ a = 1 => (t # <<>> /\ t[1] = MINUS)
        /\ IntPart(SubSeq(t, a + 1, b), wide)
        /\ FracPart(SubSeq(t, b + 1, c), wide)
        /\ ExpPart(SubSeq(t, c + 1, Len(t)), wide)

\* the prefixes of s that are numbers, by their lengths
NumberPrefixes(s, wide) == {n \in 1..Len(s) : IsNumber(SubSeq(s, 1, n), wide)}

LongestNumber(s, wide) ==
    CHOOSE n \in NumberPrefixes(s, wide) :
        \A k \in NumberPrefixes(s, wide) : k <= n

\* a scan at offset 0 of a text that begins with a number consumes the
\* longest prefix that is one, and decode refuses what is left as extra
\* data at the offset where that prefix ends
LongestMatchHolds(wide) ==
    (call.idx = 0 /\ call.op # "none" /\ NumberPrefixes(doc, wide) # {}) =>
        IF call.op = "raw_decode" \/ LongestNumber(doc, wide) = Len(doc)
        THEN outcome.k = "ok" /\ outcome.end = LongestNumber(doc, wide)
        ELSE IsErr(outcome, E_EXTRA, LongestNumber(doc, wide))

\* C24: the number scanner consumes the longest prefix at the position
\* that matches -?(0|[1-9]digits)(.digits)?([eE][-+]?digits)?, digits being
\* 0 to 9, and nothing more; decode of a text with a remainder raises
\* "Extra data" at the offset where the match ended.
C24_LongestNumberPrefix == LongestMatchHolds(FALSE)

\* the same with \d read as any decimal digit of Unicode, as re reads it in
\* a str pattern
C24_LongestMatchOfPattern == LongestMatchHolds(TRUE)

\* decode of "01" has been refused at offset 1
C24_Witness ==
    /\ call.op = "decode"
    /\ doc = <<CH_0, CH_1>>
    /\ IsErr(outcome, E_EXTRA, 1)

\* decode of "1" and ARABIC-INDIC DIGIT TWO has given the integer 12
C24_WitnessWideDigit ==
    /\ call.op = "decode"
    /\ doc = <<CH_1, AI_0 + 2>>
    /\ outcome.k = "ok"
    /\ outcome.value = VInt(12)

\* a number that ends at offset c of s goes on after it
NumberGoesOn(s, c) ==
    \E a \in 1..c, n \in (c + 1)..Len(s) :
        /\ IsNumber(SubSeq(s, a, c), TRUE)
        /\ IsNumber(SubSeq(s, a, n), TRUE)

\* the first c characters of s, which opens a container at offset 0, end
\* with a complete element or pair of that container: closed there, the
\* container is complete and not empty
CompleteUpTo(s, c, close, kind) ==
    /\ ~NumberGoesOn(s, c)
    /\ DecodeOf(SubSeq(s, 1, c) \o <<close>>, Ctx, memo_at_call).k = "ok"
    /\ DecodeOf(SubSeq(s, 1, c) \o <<close>>, Ctx, memo_at_call).value.t = kind
    /\ DecodeOf(SubSeq(s, 1, c) \o <<close>>, Ctx, memo_at_call).value.v # <<>>

\* the character after the element or pair and the whitespace after it is
\* no delimiter of the container, or the text ends there
NoDelimiterAt(s, p, close) == p = Len(s) \/ s[p + 1] \notin {COMMA, close}

MissingDelimiterRefused(s, open, close, kind) ==
    (s # <<>> /\ s[1] = open) =>
        \A c \in 2..Len(s) :
            (/\ CompleteUpTo(s, c, close, kind)
             /\ NoDelimiterAt(s, FirstNonWs(s, c), close))
                => IsErr(outcome, E_COMMA, FirstNonWs(s, c))

\* C25: after a complete array element or object pair and the whitespace
\* after it, a character that is neither ',' nor the closing bracket of the
\* container, or the end of the text, is refused with "Expecting ','
\* delimiter" at the offset of that character (the length of the text at
\* its end).
C25_ExpectingCommaOrClose ==
    call.op = "decode" =>
        /\ MissingDelimiterRefused(doc, LBRACKET, RBRACKET, "arr")
        /\ MissingDelimiterRefused(doc, LBRACE, RBRACE, "obj")

\* decode of {"a":1 1 has been refused at the second 1, offset 7
C25_Witness ==
    /\ call.op = "decode"
    /\ doc = <<LBRACE, QUOTE, CH_a, QUOTE, COLON, CH_1, SPACE, CH_1>>
    /\ IsErr(outcome, E_COMMA, 7)

\* decode of "[1 " has been refused at the end of the text, offset 3
C25_WitnessEndOfInput ==
    /\ call.op = "decode"
    /\ doc = <<LBRACKET, CH_1, SPACE>>
    /\ IsErr(outcome, E_COMMA, 3)

\* decode of [[1]: has been refused at the ':', offset 4
C25_WitnessNested ==
    /\ call.op = "decode"
    /\ doc = <<LBRACKET, LBRACKET, CH_1, RBRACKET, COLON>>
    /\ IsErr(outcome, E_COMMA, 4)

\* the characters of 0-9, a-f and A-F
IsHex(c) == c \in 48..57 \/ c \in 65..70 \/ c \in 97..102

\* the length of the escape that begins the text t, a backslash first: 2
\* for one of \" \\ \/ \b \f \n \r \t, 6 for \u and four hex digits, 0 for
\* anything else
EscapeLen(t) ==
    IF Len(t) >= 2 /\ t[2] \in {QUOTE, BSLASH, SLASH, CH_b, CH_f, CH_n, CH_r, CH_t}
    THEN 2
    ELSE IF Len(t) >= 6 /\ t[2] = CH_u /\ \A i \in 3..6 : IsHex(t[i])
    THEN 6
    ELSE 0

\* the text t, which follows an opening quote, ends before the closing
\* quote is found: it is characters, control characters when they are
\* tolerated, and whole escapes, up to its end or to a last backslash
RECURSIVE EndsOpen(_, _)
EndsOpen(t, isStrict) ==
    IF t = <<>> THEN TRUE
    ELSE IF t[1] = QUOTE THEN FALSE
    ELSE IF t[1] = BSLASH
    THEN IF Len(t) = 1 THEN TRUE
         ELSE IF EscapeLen(t) = 0 THEN FALSE
         ELSE EndsOpen(SubSeq(t, EscapeLen(t) + 1, Len(t)), isStrict)
    ELSE IF t[1] < SPACE /\ isStrict THEN FALSE
    ELSE EndsOpen(Tail(t), isStrict)

\* the offset of the quote that opens the first string of s: a value
\* string at offset 0, or the first key of an object, at offset 1
OpeningQuote(s) == IF s[1] = QUOTE THEN 0 ELSE 1

OpensString(s) ==
    \/ Len(s) >= 1 /\ s[1] = QUOTE
    \/ Len(s) >= 2 /\ s[1] = LBRACE /\ s[2] = QUOTE

\* C26: when the text ends before the closing quote of a string is found,
\* with no terminator after the last chunk or right after a backslash, the
\* error is "Unterminated string starting at" the offset of the string's
\* opening quote, for a value string and for an object key alike.
C26_UnterminatedString ==
    (/\ call.op = "decode"
     /\ OpensString(doc)
     /\ EndsOpen(SubSeq(doc, OpeningQuote(doc) + 2, Len(doc)), strict))
        => IsErr(outcome, E_UNTERMINATED, OpeningQuote(doc))

\* decode of "\n\ (a quote, an escape and a backslash) has been refused at
\* the opening quote, offset 0
C26_Witness ==
    /\ call.op = "decode"
    /\ doc = <<QUOTE, BSLASH, CH_n, BSLASH>>
    /\ IsErr(outcome, E_UNTERMINATED, 0)

\* decode of {"a has been refused at the key's opening quote, offset 1
C26_WitnessKey ==
    /\ call.op = "decode"
    /\ doc = <<LBRACE, QUOTE, CH_a>>
    /\ IsErr(outcome, E_UNTERMINATED, 1)

\* decode of {"\ has been refused at the key's opening quote, offset 1
C26_WitnessKeyBackslash ==
    /\ call.op = "decode"
    /\ doc = <<LBRACE, QUOTE, BSLASH>>
    /\ IsErr(outcome, E_UNTERMINATED, 1)

\* with strict off, decode of a quote, a tab and a has been refused at the
\* opening quote, offset 0
C26_WitnessLenient ==
    /\ call.op = "decode"
    /\ ~strict
    /\ doc = <<QUOTE, TAB, CH_a>>
    /\ IsErr(outcome, E_UNTERMINATED, 0)

\* the offset of the first raw control character of the string whose text
\* after the opening quote is t, t beginning at offset off: -1 when the
\* closing quote, an escape that is not whole or the end comes first
RECURSIVE ControlIn(_, _)
ControlIn(t, off) ==
    IF t = <<>> \/ t[1] = QUOTE THEN -1
    ELSE IF t[1] = BSLASH
    THEN IF EscapeLen(t) = 0 THEN -1
         ELSE ControlIn(SubSeq(t, EscapeLen(t) + 1, Len(t)), off + EscapeLen(t))
    ELSE IF t[1] < SPACE THEN off
    ELSE ControlIn(Tail(t), off + 1)

\* the offset of the first raw control character of the first string of s
FirstControl(s) ==
    ControlIn(SubSeq(s, OpeningQuote(s) + 2, Len(s)), OpeningQuote(s) + 1)

\* with strict on, the error for the first raw control character of the
\* text's first string is at that character's offset plus shift
ControlCharRefusedAt(shift) ==
    (/\ call.op = "decode"
     /\ strict
     /\ OpensString(doc)
     /\ FirstControl(doc) >= 0)
        => IsErr(outcome, E_CONTROL, FirstControl(doc) + shift)

\* C27: in strict mode the error for a raw control character in a string
\* carries the offset of that character itself, wherever it is in the
\* string.
C27_ControlCharacterOffset == ControlCharRefusedAt(0)

\* the offset the error carries is the one after the control character
C27_OffsetAfterControlCharacter == ControlCharRefusedAt(1)

\* with strict on, decode of a quote, a and a tab has been refused with
\* the offset 3, the tab being at offset 2
C27_Witness ==
    /\ call.op = "decode"
    /\ strict
    /\ doc = <<QUOTE, CH_a, TAB>>
    /\ IsErr(outcome, E_CONTROL, 3)

\* what decode of the text s gives on a decoder that has decoded nothing
OnFreshDecoder(s) == Raised(s, Seen(DecodeOf(s, Ctx, {})))

C28_WitnessOverlapped ==
    /\ call.op = "decode"
    /\ <<CH_x>> \in memo_at_call
    /\ doc = <<LBRACE, QUOTE, CH_b, QUOTE>>
    /\ IsErr(outcome, E_COLON, 4)

\* decode of text[start:end] alone gives the value v
AloneGives(s, start, end, v) ==
    /\ DecodeOf(SubSeq(s, start + 1, end), Ctx, {}).k = "ok"
    /\ DecodeOf(SubSeq(s, start + 1, end), Ctx, {}).value.t = v.t
    /\ DecodeOf(SubSeq(s, start + 1, end), Ctx, {}).value = v

\* raw_decode at a start offset of at least least: within the text a
\* success ends after the start and not after the end of the text, with the
\* value of text[start:end] alone; outside the text the call fails with
\* "Expecting value"
RawDecodeAtStart(least) ==
    (call.op = "raw_decode" /\ call.idx >= least) =>
        IF 0 <= call.idx /\ call.idx < Len(doc)
        THEN outcome.k = "ok" =>
                /\ call.idx < outcome.end
                /\ outcome.end <= Len(doc)
                /\ AloneGives(doc, call.idx, outcome.end, outcome.value)
        ELSE outcome.k = "err" /\ outcome.msg = E_VALUE

\* C29: raw_decode reads the value that begins exactly at the start
\* offset: for 0 <= start < len(text) a successful call returns an end with
\* start < end <= len(text) and the value of text[start:end] alone; for a
\* start at or past the end of the text, or negative, the call raises
\* "Expecting value".
C29_RawDecodeAtStart == RawDecodeAtStart(-MaxBack)

\* the same for the starts that are not negative
C29_RawDecodeAtStartFromZero == RawDecodeAtStart(0)

\* raw_decode of "1" at the start -1 has returned 1 and the end 1
C29_WitnessNegative ==
    /\ call.op = "raw_decode"
    /\ call.idx = -1
    /\ doc = <<CH_1>>
    /\ outcome.k = "ok"
    /\ outcome.value = VInt(1)
    /\ outcome.end = 1

\* raw_decode of x[1] at the start 1 has returned [1] and the end 4
C29_Witness ==
    /\ call.op = "raw_decode"
    /\ call.idx = 1
    /\ doc = <<CH_x, LBRACKET, CH_1, RBRACKET>>
    /\ outcome.k = "ok"
    /\ outcome.end = 4

\* an iteration that goes on to another leaves the scan after the offset
\* it began at, and not after len(text) + 1
Advances(step, p, s) ==
    step.k = "next" => (p < step.end /\ step.end <= Len(s) + 1)

\* every iteration of the three loops, and every scan of a value, from any
\* offset of the text strictly advances, and not beyond len(text) + 1
LoopsAdvance(s, ctx, m) ==
    \A p \in 0..Len(s) :
        /\ Advances(ChunkStep(s, p, ctx.strict), p, s)
        /\ Advances(ElementStep(s, p, ctx, m), p, s)
        /\ Advances(PairStep(s, p, ctx, m), p, s)
        /\ ScanOnce(s, p, ctx, m).k = "ok" =>
              (p < ScanOnce(s, p, ctx, m).end
                 /\ ScanOnce(s, p, ctx, m).end <= Len(s))

\* C30: decode and raw_decode end, for every text, with a value or with a
\* decode error; every iteration of the string-chunk loop, of the
\* object-pair loop and of the array-element loop, and every nested scan of
\* a value, strictly advances the scan position, which never exceeds
\* len(text) + 1.
C30_Terminates ==
    call.op # "none" =>
        /\ outcome.k \in {"ok", "err"}
        /\ LoopsAdvance(doc, Ctx, memo_at_call)

\* the part of it on the scan position alone
C30_ScanAdvances == call.op # "none" => LoopsAdvance(doc, Ctx, memo_at_call)

\* "\u-1F1" has ended in the ValueError of chr, which is no decode error
C30_WitnessCrash ==
    /\ call.op = "decode"
    /\ doc = U_OPEN \o <<MINUS, CH_1, CH_F, CH_1, QUOTE>>
    /\ outcome.k = "crash"
    /\ outcome.msg = E_CHR

----------------------------------------------------------------------------
(* Properties of the encoder.                                              *)

\* a == b for two values, types first
RECURSIVE SameValue(_, _)
SameValue(a, b) ==
    /\ a.t = b.t
    /\ CASE a.t = "null" -> TRUE
         [] a.t = "real" -> a.neg = b.neg /\ a.m = b.m /\ a.e = b.e
         [] a.t = "arr" ->
              /\ Len(a.v) = Len(b.v)
              /\ \A i \in 1..Len(a.v) : SameValue(a.v[i], b.v[i])
         [] a.t = "obj" ->
              /\ Len(a.v) = Len(b.v)
              /\ \A i \in 1..Len(a.v) :
                    /\ SameValue(a.v[i][1], b.v[i][1])
                    /\ SameValue(a.v[i][2], b.v[i][2])
         [] OTHER -> a.v = b.v

\* the value a cell stands for, as the decoder would build it
RECURSIVE Unfold(_, _)
Unfold(h, c) ==
    IF IsAtom(c) THEN c
    ELSE IF h[c.id].t = "list"
    THEN VArr([i \in 1..Len(h[c.id].items) |-> Unfold(h, h[c.id].items[i])])
    ELSE VObj([i \in 1..Len(h[c.id].items) |->
                  <<h[c.id].items[i][1], Unfold(h, h[c.id].items[i][2])>>])

\* a text in which a high surrogate stands right before a low surrogate
HasSurrogatePair(s) ==
    \E i \in 1..(Len(s) - 1) :
        /\ s[i] \in HI_FIRST..HI_LAST
        /\ s[i + 1] \in LO_FIRST..LO_LAST

RECURSIVE AnySurrogatePair(_)
AnySurrogatePair(v) ==
    CASE v.t = "str" -> HasSurrogatePair(v.v)
      [] v.t = "arr" -> \E i \in 1..Len(v.v) : AnySurrogatePair(v.v[i])
      [] v.t = "obj" ->
           \E i \in 1..Len(v.v) :
               AnySurrogatePair(v.v[i][1]) \/ AnySurrogatePair(v.v[i][2])
      [] OTHER -> FALSE

\* encode returned a text and decode was called on it
RoundTripDone == encoded.k = "ok" /\ call.op = "decode"

\* decode gave back the value that was encoded
CameBack == outcome.k = "ok" /\ SameValue(outcome.value, Unfold(heap, target))

\* C2 as stated: whatever value of the JSON types the caller made, strings
\* of any code points included, decode(encode(v)) is v.
C2_RoundTripAnyString == RoundTripDone => CameBack

\* C2: for every value made of null, booleans, integers, finite reals,
\* strings, lists and string-keyed dicts in which no string has a high
\* surrogate right before a low surrogate, the default encoder returns a
\* text (it raises only on a value that holds itself), and the default
\* decoder turns that text back into the same value, an integer an integer
\* and a real a real.
C2_RoundTrip ==
    /\ encoded.k = "err" => encoded.msg = E_CIRCULAR
    /\ (RoundTripDone /\ ~AnySurrogatePair(Unfold(heap, target))) => CameBack

\* a dict with a lone surrogate as its key and an astral code point and a
\* backslash in its value has gone through encode and decode
C2_Witness ==
    /\ RoundTripDone
    /\ outcome.k = "ok"
    /\ IsRef(target)
    /\ heap[target.id].t = "dict"
    /\ Len(heap[target.id].items) = 1
    /\ heap[target.id].items[1][1].v = <<HI_FIRST>>
    /\ heap[target.id].items[1][2].t = "str"
    /\ heap[target.id].items[1][2].v = <<128512, BSLASH>>

\* a list of a real with an integer value and an integer has gone through
C2_WitnessNumbers ==
    /\ RoundTripDone
    /\ outcome.k = "ok"
    /\ IsRef(target)
    /\ heap[target.id].t = "list"
    /\ Len(heap[target.id].items) = 2
    /\ heap[target.id].items[1].t = "real"
    /\ heap[target.id].items[1].m = 2
    /\ heap[target.id].items[2].t = "int"

\* the ids of the cells that are objects
RefIds(cs) == {cs[k].id : k \in {k \in 1..Len(cs) : IsRef(cs[k])}}

\* a key _iterencode_dict passes over
Dropped(enc, key) == KeyText(key, enc).k = "skip"

\* the objects right inside object i: "held" are the items of a list and
\* the values of a dict; "entered" leaves out the values under keys the
\* encoder passes over; "walked" adds what the default hook returns
Inside(h, enc, i, mode) ==
    CASE h[i].t = "list" -> RefIds(h[i].items)
      [] h[i].t = "dict" ->
           {h[i].items[k][2].id :
               k \in {k \in 1..Len(h[i].items) :
                        /\ IsRef(h[i].items[k][2])
                        /\ (mode = "held" \/ ~Dropped(enc, h[i].items[k][1]))}}
      [] OTHER ->
           IF mode = "walked" /\ enc.default = "convert" /\ IsRef(h[i].to)
           THEN {h[i].to.id} ELSE {}

RECURSIVE Within(_, _, _, _)
Within(h, enc, S, mode) ==
    IF UNION {Inside(h, enc, i, mode) : i \in S} \subseteq S THEN S
    ELSE Within(h, enc, S \cup UNION {Inside(h, enc, i, mode) : i \in S}, mode)

\* object i holds itself, directly or through a chain
HoldsItself(h, enc, i, mode) ==
    i \in Within(h, enc, Inside(h, enc, i, mode), mode)

IsRefused(enc, c) == c.t = "nonfinite" /\ ~enc.allow_nan

\* object i has something the encoder refuses for another reason than a
\* cycle: a non-finite real with allow_nan off, a key of another type with
\* skipkeys off, another class with no hook, keys sort_keys cannot order
Refuses(h, enc, i) ==
    CASE h[i].t = "list" ->
           \E k \in 1..Len(h[i].items) : IsRefused(enc, h[i].items[k])
      [] h[i].t = "dict" ->
           \/ \E k \in 1..Len(h[i].items) :
                 \/ KeyText(h[i].items[k][1], enc).k = "raise"
                 \/ IsRefused(enc, h[i].items[k][2])
           \/ enc.sort_keys /\ ~Sortable(h[i].items)
      [] OTHER -> enc.default = "class" \/ IsRefused(enc, h[i].to)

\* nothing the encoder can get to from object i is refused
Clean(h, enc, i) ==
    \A j \in Within(h, enc, {i}, "walked") : ~Refuses(h, enc, j)

\* the generator has ended, by StopIteration or by an exception
Ended == gen.st \in {"done", "raise"}

\* the target is a list or a dict
TargetIsContainer == IsRef(target) /\ heap[target.id].t \in {"list", "dict"}

\* a frame that has put its object into markers and not taken it out: a
\* list or dict past its first lines (an empty one returns before them),
\* or _iterencode around the value of the default hook
Registered(f) ==
    \/ f.fn \in {"list", "dict"} /\ f.pc \notin {"start", "ret"}
    \/ f.fn = "iterencode" /\ f.pc \in {"default", "del"}

RegisteredFrames(frames) == {j \in 1..Len(frames) : Registered(frames[j])}

\* the frame that raised is entering an object that one frame below it, and
\* one only, has registered
SecondEntry(frames) ==
    /\ frames # <<>>
    /\ frames[Len(frames)].pc = "start"
    /\ IsRef(frames[Len(frames)].o)
    /\ Cardinality({j \in RegisteredFrames(frames) :
                       frames[j].o.id = frames[Len(frames)].o.id}) = 1

\* C3 as stated: with check_circular, encoding a list or dict that holds
\* itself, directly or through a chain of lists and dicts, always ends in
\* "Circular reference detected".
C3_SelfHoldingAlwaysRaises ==
    (/\ encoder.check_circular
     /\ Ended
     /\ TargetIsContainer
     /\ HoldsItself(heap, encoder, target.id, "held"))
    => (gen.st = "raise" /\ gen.err = E_CIRCULAR)

\* C3: with check_circular the encoder never recurses without bound.
\* Encoding a list or dict that holds itself, directly or through a chain
\* of lists and dicts no link of which is under a key skipkeys passes over,
\* never succeeds; it raises "Circular reference detected" when nothing
\* the encoder gets to is refused for another reason (a non-finite real
\* with allow_nan off, a key of another type with skipkeys off, an object
\* the default hook rejects, keys sort_keys cannot order).  The error is
\* raised when an object is entered the second time on one recursion path.
C3_CircularReference ==
    encoder.check_circular =>
        /\ gen.err # E_RECURSION
        /\ (/\ Ended
            /\ TargetIsContainer
            /\ HoldsItself(heap, encoder, target.id, "entered"))
           => /\ gen.st = "raise"
              /\ Clean(heap, encoder, target.id) => gen.err = E_CIRCULAR
        /\ (gen.st = "raise" /\ gen.err = E_CIRCULAR)
           => SecondEntry(gen.frames)

\* a dict that holds itself through a list, not directly, was streamed up
\* to the chunk before the second entry, and the next chunk raised
C3_Witness ==
    /\ encoder.check_circular
    /\ gen.st = "raise"
    /\ gen.err = E_CIRCULAR
    /\ Len(stream) >= 2
    /\ TargetIsContainer
    /\ heap[target.id].t = "dict"
    /\ target.id \notin Inside(heap, encoder, target.id, "held")
    /\ HoldsItself(heap, encoder, target.id, "entered")

\* the objects that are open around the place the generator is at
OpenAncestors(frames) == {frames[j].o.id : j \in RegisteredFrames(frames)}

\* something the encoder gets to from the target holds itself
CycleAhead(h, enc, c) ==
    /\ IsRef(c)
    /\ \E j \in Within(h, enc, {c.id}, "walked") :
          HoldsItself(h, enc, j, "walked")

\* C4: at every point of an encode with check_circular (before the first
\* chunk, between two chunks, at the end), markers holds the identities of
\* exactly the objects that are open around the current position: the
\* lists and dicts being written that have items (an empty one is written
\* in one chunk, like a scalar) and the objects whose default value is
\* being written; no two open frames are of one object; an entry is taken
\* out when its object is done, so "Circular reference detected" is raised
\* only for a value that holds itself, not for one that is referred to
\* twice; and markers is empty when the chunks end with StopIteration.
C4_CycleGuard ==
    encoder.check_circular =>
        /\ gen.markers = OpenAncestors(gen.frames)
        /\ \A j, k \in RegisteredFrames(gen.frames) :
              gen.frames[j].o.id = gen.frames[k].o.id => j = k
        /\ (gen.st = "raise" /\ gen.err = E_CIRCULAR)
           => CycleAhead(heap, encoder, target)
        /\ gen.st = "done" => gen.markers = {}

\* a list of two references to one other list that has an item is being
\* streamed, and the generator is inside the second of them: the other
\* list has been in markers, out of it, and is in it again
C4_Witness ==
    /\ encoder.check_circular
    /\ gen.st = "yield"
    /\ Len(stream) >= 5
    /\ TargetIsContainer
    /\ heap[target.id].t = "list"
    /\ Len(heap[target.id].items) = 2
    /\ IsRef(heap[target.id].items[1])
    /\ IsRef(heap[target.id].items[2])
    /\ heap[target.id].items[1].id = heap[target.id].items[2].id
    /\ heap[target.id].items[1].id # target.id
    /\ heap[heap[target.id].items[1].id].t = "list"
    /\ heap[heap[target.id].items[1].id].items # <<>>
    /\ gen.markers = {target.id, heap[target.id].items[1].id}

\* the encode of such a list has ended with StopIteration
C4_WitnessDone ==
    /\ encoder.check_circular
    /\ gen.st = "done"
    /\ TargetIsContainer
    /\ heap[target.id].t = "list"
    /\ Len(heap[target.id].items) = 2
    /\ IsRef(heap[target.id].items[1])
    /\ IsRef(heap[target.id].items[2])
    /\ heap[target.id].items[1].id = heap[target.id].items[2].id
    /\ heap[heap[target.id].items[1].id].t = "list"
    /\ heap[heap[target.id].items[1].id].items # <<>>

\* whether the text e is an escape sequence for the code point c: a two
\* character escape, \uXXXX, or the \uXXXX\uXXXX of its surrogate pair
IsUEscape(e) ==
    /\ Len(e) = 6
    /\ e[1] = BSLASH /\ e[2] = CH_u
    /\ \A i \in 3..6 : IsHexDigit(e[i])

UValue(e) == 4096 * HexVal(e[3]) + 256 * HexVal(e[4]) + 16 * HexVal(e[5]) + HexVal(e[6])

EscapeOf(e, c) ==
    CASE Len(e) = 2 ->
           /\ e[1] = BSLASH
           /\ <<e[2], c>> \in {<<QUOTE, QUOTE>>, <<BSLASH, BSLASH>>, <<CH_b, BS>>,
                                <<CH_f, FF>>, <<CH_n, LF>>, <<CH_r, CR>>, <<CH_t, TAB>>}
      [] Len(e) = 6 -> IsUEscape(e) /\ UValue(e) = c
      [] Len(e) = 12 ->
           /\ IsUEscape(SubSeq(e, 1, 6)) /\ IsUEscape(SubSeq(e, 7, 12))
           /\ UValue(SubSeq(e, 1, 6)) \in 55296..56319
           /\ UValue(SubSeq(e, 7, 12)) \in 56320..57343
           /\ c = 65536 + (UValue(SubSeq(e, 1, 6)) - 55296) * 1024
                         + (UValue(SubSeq(e, 7, 12)) - 56320)
      [] OTHER -> FALSE

\* the code points that are to be escaped: the quote, the backslash, the
\* control codes and, for ASCII-only output, 0x80 and up and those of more
IsEscaped(c, ascii, more) ==
    \/ c \in {QUOTE, BSLASH}
    \/ c \in 0..31
    \/ ascii /\ (c >= 128 \/ c \in more)

\* whether t is s with exactly the code points to be escaped replaced by an
\* escape sequence for them, \uXXXX or a pair of them from 0x80 on
RECURSIVE EscapedAs(_, _, _, _)
EscapedAs(s, t, ascii, more) ==
    IF s = <<>> THEN t = <<>>
    ELSE IF t = <<>> THEN FALSE
    ELSE IF IsEscaped(s[1], ascii, more)
         THEN \E n \in {2, 6, 12} :
                 /\ n <= Len(t)
                 /\ s[1] >= 128 => n = (IF s[1] >= 65536 THEN 12 ELSE 6)
                 /\ EscapeOf(SubSeq(t, 1, n), s[1])
                 /\ EscapedAs(Tail(s), SubSeq(t, n + 1, Len(t)), ascii, more)
    ELSE t[1] = s[1] /\ EscapedAs(Tail(s), Tail(t), ascii, more)

QuotedAs(v, t, ascii, more) ==
    /\ v.t = "str"
    /\ Len(t) >= 2
    /\ t[1] = QUOTE /\ t[Len(t)] = QUOTE
    /\ EscapedAs(v.v, SubSeq(t, 2, Len(t) - 1), ascii, more)

\* what C14 asks of the text of a string, of a list of one string and of a
\* dict of one string under a string key
EscapingHolds(more) ==
    (encoded.k = "ok" /\ suite = "esc") =>
        /\ encoder.ensure_ascii => \A i \in 1..Len(encoded.text) : encoded.text[i] < 128
        /\ target.t = "str" =>
              QuotedAs(target, encoded.text, encoder.ensure_ascii, more)
        /\ (target.t = "ref" /\ heap[target.id].items # <<>>) =>
              LET o == heap[target.id]
                  t == encoded.text
              IN  IF o.t = "list"
                  THEN /\ t[1] = LBRACKET /\ t[Len(t)] = RBRACKET
                       /\ QuotedAs(o.items[1], SubSeq(t, 2, Len(t) - 1),
                                   encoder.ensure_ascii, more)
                  ELSE /\ t[1] = LBRACE /\ t[Len(t)] = RBRACE
                       /\ \E j \in 3..(Len(t) - 5) :
                             /\ QuotedAs(o.items[1][1], SubSeq(t, 2, j),
                                         encoder.ensure_ascii, more)
                             /\ SubSeq(t, j + 1, j + 2) = KEY_SEPARATOR
                             /\ QuotedAs(o.items[1][2], SubSeq(t, j + 3, Len(t) - 1),
                                         encoder.ensure_ascii, more)

C14_WitnessRaw ==
    /\ encoded.k = "ok"
    /\ ~encoder.ensure_ascii
    /\ target.t = "ref"
    /\ heap[target.id] = [t |-> "list", items |-> <<VStr(<<233>>)>>]
    /\ encoded.text = <<LBRACKET, QUOTE, 233, QUOTE, RBRACKET>>

\* U+1F600 has been encoded as the escapes of its surrogate pair
C14_WitnessPair ==
    /\ encoded.k = "ok"
    /\ encoder.ensure_ascii
    /\ target = VStr(<<128512>>)
    /\ encoded.text = <<QUOTE>> \o ESC_d83d \o ESC_de00 \o <<QUOTE>>

\* DEL has been encoded as \u007f with ensure_ascii
C14_WitnessDel ==
    /\ encoded.k = "ok"
    /\ encoder.ensure_ascii
    /\ target = VStr(<<127>>)
    /\ encoded.text = <<QUOTE, BSLASH, CH_u, CH_0, CH_0, 55, CH_f, QUOTE>>

\* the keys of a dict in the order it has them
KeysOf(items) == [i \in 1..Len(items) |-> items[i][1]]

IsBasicKey(k) == k.t \in {"str", "bool", "null", "int", "real"}

\* the literal a key of a basic type has as a value, a str as it is
KeyLiteral(k) ==
    CASE k.t = "str" -> k.v
      [] k.t = "bool" -> IF k.v THEN KW_true ELSE KW_false
      [] k.t = "null" -> KW_null
      [] k.t = "int" -> IntStr(k.v)
      [] k.t = "real" -> FLOAT_REPR(k)

\* the text of the pairs of the keys with the value 1, in this order
RECURSIVE JoinPairs(_)
JoinPairs(keys) ==
    IF keys = <<>> THEN <<>>
    ELSE <<QUOTE>> \o KeyLiteral(keys[1]) \o <<QUOTE, COLON, SPACE, CH_1>>
         \o (IF Len(keys) > 1 THEN <<COMMA, SPACE>> ELSE <<>>)
         \o JoinPairs(Tail(keys))

ObjectText(keys) == <<LBRACE>> \o JoinPairs(keys) \o <<RBRACE>>

Perms(n) == {p \in [1..n -> 1..n] : \A i, j \in 1..n : p[i] = p[j] => i = j}

Reorder(keys, p) == [i \in 1..Len(keys) |-> keys[p[i]]]

\* whether the keys are those expected, one by one
SameKeys(keys, expected) ==
    /\ Len(keys) = Len(expected)
    /\ \A i \in 1..Len(keys) :
          keys[i].t = expected[i].t /\ keys[i] = expected[i]

\* encode was called on a dict of the keys suite whose values are all 1
KeyedTarget ==
    /\ suite = "keys"
    /\ encoded.k # "none"
    /\ target.t = "ref"
    /\ heap[target.id].t = "dict"
    /\ \A i \in 1..Len(heap[target.id].items) :
          heap[target.id].items[i][2].t = "int"

\* keys Python has no order for: a str and a number, None or a tuple and
\* anything else
Unordered(keys) ==
    \E i, j \in 1..Len(keys) : KeyClass(keys[i]) # KeyClass(keys[j])

\* the text is that of the pairs in some order in which less(a, b) holds
\* for no pair b, a that follow each other
EmittedInOrder(keys, Less(_, _)) ==
    /\ encoded.k = "ok"
    /\ \E p \in Perms(Len(keys)) :
          /\ \A i \in 1..(Len(keys) - 1) :
                ~Less(Reorder(keys, p)[i + 1], Reorder(keys, p)[i])
          /\ encoded.text = ObjectText(Reorder(keys, p))

LiteralLess(a, b) == TextLess(KeyLiteral(a), KeyLiteral(b))

C15_WitnessMixed ==
    /\ KeyedTarget /\ encoder.sort_keys
    /\ SameKeys(KeysOf(heap[target.id].items), <<VStr(<<CH_a>>), VInt(9)>>)
    /\ encoded.k = "err" /\ encoded.msg = E_ORDER

\* what C16 asks of the dict that encode was called on
KeysHold ==
    LET keys == KeysOf(heap[target.id].items)
    IN  IF ~encoder.skipkeys /\ \E i \in 1..Len(keys) : ~IsBasicKey(keys[i])
        THEN encoded.k = "err" /\ encoded.msg = E_KEY
        ELSE /\ encoded.k = "ok"
             /\ \E p \in Perms(Len(SelectSeq(keys, IsBasicKey))) :
                   encoded.text = ObjectText(Reorder(SelectSeq(keys, IsBasicKey), p))

\* C16: a str key is emitted as it is, a true, false, null, integer or
\* real key as the quoted text of its literal; a pair with a key of any
\* other type is left out, with no separator for it, when skipkeys is set,
\* and raises "key ... is not a string" otherwise.
C16_KeysAtEncodeTime == KeyedTarget => KeysHold

\* the same for the dicts that are not sorted or whose keys Python can order
C16_KeysWhenOrdered ==
    (/\ KeyedTarget
     /\ ~encoder.sort_keys \/ ~Unordered(KeysOf(heap[target.id].items))) => KeysHold

\* with skipkeys the dict with the keys "a", the tuple and true has been
\* encoded without the tuple's pair
C16_Witness ==
    /\ KeyedTarget /\ encoder.skipkeys /\ ~encoder.sort_keys
    /\ SameKeys(KeysOf(heap[target.id].items), <<VStr(<<CH_a>>), VTuple, VBool(TRUE)>>)
    /\ encoded.k = "ok"
    /\ encoded.text = ObjectText(<<VStr(<<CH_a>>), VBool(TRUE)>>)

\* with skipkeys and sort_keys the dict with the keys "a" and the tuple has
\* been refused by the sort
C16_WitnessSorted ==
    /\ KeyedTarget /\ encoder.skipkeys /\ encoder.sort_keys
    /\ SameKeys(KeysOf(heap[target.id].items), <<VStr(<<CH_a>>), VTuple>>)
    /\ encoded.k = "err" /\ encoded.msg = E_ORDER

\* the text one level of indentation is
IndentOf(enc) ==
    IF enc.indent.is = "int" THEN [i \in 1..enc.indent.n |-> SPACE]
    ELSE enc.indent.s

\* a newline and the indentation of the level
RECURSIVE Indentation(_, _)
Indentation(unit, level) ==
    IF level = 0 THEN <<LF>> ELSE Indentation(unit, level - 1) \o unit

\* the indented text of an integer, a list or a dict with str keys at a
\* level: every element or pair of a container on a line of its own, one
\* level deeper, a ',' right before the newline between two of them, and
\* the closing bracket on a line of its own at the container's level
RECURSIVE Pretty(_, _, _, _)
RECURSIVE PrettyItems(_, _, _, _, _)
Pretty(h, c, unit, level) ==
    IF c.t = "int" THEN IntStr(c.v)
    ELSE IF h[c.id].items = <<>>
         THEN (IF h[c.id].t = "list" THEN <<LBRACKET, RBRACKET>>
               ELSE <<LBRACE, RBRACE>>)
    ELSE (IF h[c.id].t = "list" THEN <<LBRACKET>> ELSE <<LBRACE>>)
         \o PrettyItems(h, h[c.id], unit, level + 1, 1)
         \o Indentation(unit, level)
         \o (IF h[c.id].t = "list" THEN <<RBRACKET>> ELSE <<RBRACE>>)

PrettyItems(h, o, unit, level, i) ==
    IF i > Len(o.items) THEN <<>>
    ELSE (IF i > 1 THEN <<COMMA>> ELSE <<>>)
         \o Indentation(unit, level)
         \o (IF o.t = "list" THEN Pretty(h, o.items[i], unit, level)
              ELSE <<QUOTE>> \o o.items[i][1].v \o <<QUOTE, COLON, SPACE>>
                   \o Pretty(h, o.items[i][2], unit, level))
         \o PrettyItems(h, o, unit, level, i + 1)

\* C17: with an indent and no separators given, a container that is not
\* empty is its opening bracket, each element or pair on a line of its own
\* after one more level of indentation than the container's, a ',' and then
\* the newline between two of them, ': ' between key and value, and a
\* newline, the container's indentation and the closing bracket; an empty
\* container is [] or {} with no newline.
C17_Indentation ==
    (suite = "ind" /\ encoded.k = "ok" /\ encoder.indent.is # "None") =>
        encoded.text = Pretty(heap, target, IndentOf(encoder), 0)

\* {"a": [1, 2]} has been encoded with indent 2 as the six lines
\* { / "a": [ / 1, / 2 / ] / }
C17_Witness ==
    /\ suite = "ind" /\ encoded.k = "ok"
    /\ encoder.indent.is = "int" /\ encoder.indent.n = 2
    /\ encoded.text =
          <<LBRACE, LF, SPACE, SPACE, QUOTE, CH_a, QUOTE, COLON, SPACE, LBRACKET,
            LF, SPACE, SPACE, SPACE, SPACE, CH_1, COMMA,
            LF, SPACE, SPACE, SPACE, SPACE, 50,
            LF, SPACE, SPACE, RBRACKET, LF, RBRACE>>

\* a list that holds an empty dict has been encoded with a tab as indent
C17_WitnessEmpty ==
    /\ suite = "ind" /\ encoded.k = "ok"
    /\ encoder.indent.is = "str"
    /\ encoded.text = <<LBRACKET, LF, TAB, LBRACE, RBRACE, LF, RBRACKET>>

\* the target is an object of another class and the encoder has a hook
TargetIsConverted ==
    /\ IsRef(target)
    /\ heap[target.id].t = "custom"
    /\ encoder.default = "convert"

\* the objects of another class whose _iterencode call is at the default
\* hook or at the yield from of the hook's value
BeingConverted(frames) ==
    {frames[j].o.id :
        j \in {j \in 1..Len(frames) :
                 /\ frames[j].fn = "iterencode"
                 /\ frames[j].pc \in {"default", "del"}}}

Customs(h) == {i \in 1..Len(h) : h[i].t = "custom"}

\* what C18 says of the registration: an object of another class is in
\* markers from before the call of the hook until the hook's value is
\* encoded, and not after
RegisteredWhileConverted ==
    /\ gen.markers \cap Customs(heap) = BeingConverted(gen.frames)
    /\ gen.st = "done" => gen.markers = {}

\* C18 as it is written: with check_circular an object of another class is
\* registered before the hook is called and until the hook's value is
\* encoded, and when that value holds the object, at any depth, the encode
\* raises "Circular reference detected".
C18_HookCycleAlwaysRaises ==
    encoder.check_circular =>
        /\ RegisteredWhileConverted
        /\ (/\ Ended
            /\ TargetIsConverted
            /\ IsRef(heap[target.id].to)
            /\ target.id \in Within(heap, encoder, {heap[target.id].to.id}, "held"))
           => (gen.st = "raise" /\ gen.err = E_CIRCULAR)

\* C18: with check_circular an object of another class is registered
\* before the hook is called and stays registered until the hook's value is
\* encoded, and is not registered after.  When the encoder gets to the
\* object again inside that value, at any depth but not under a key that
\* skipkeys passes over, the encode does not succeed: it raises "Circular
\* reference detected" unless something it gets to is refused for another
\* reason (a non-finite real with allow_nan off, a key of another type
\* with skipkeys off).
C18_DefaultHookCycle ==
    encoder.check_circular =>
        /\ RegisteredWhileConverted
        /\ (/\ Ended
            /\ TargetIsConverted
            /\ HoldsItself(heap, encoder, target.id, "walked"))
           => /\ gen.st = "raise"
              /\ Clean(heap, encoder, target.id) => gen.err = E_CIRCULAR

\* the hook's value for the target is a list that holds the target: the
\* encode has raised at the second entry, the target still registered
C18_Witness ==
    /\ encoder.check_circular
    /\ TargetIsConverted
    /\ IsRef(heap[target.id].to)
    /\ heap[heap[target.id].to.id].t = "list"
    /\ target.id \in RefIds(heap[heap[target.id].to.id].items)
    /\ gen.st = "raise" /\ gen.err = E_CIRCULAR
    /\ target.id \in gen.markers

\* the hook's value for the target is a list of one integer: its chunks
\* have ended and the target is registered no more
C18_WitnessDone ==
    /\ encoder.check_circular
    /\ TargetIsConverted
    /\ IsRef(heap[target.id].to)
    /\ heap[heap[target.id].to.id].t = "list"
    /\ Len(heap[heap[target.id].to.id].items) = 1
    /\ IsAtom(heap[heap[target.id].to.id].items[1])
    /\ gen.st = "done"
    /\ stream # <<>>
    /\ gen.markers = {}

\* the caller has pulled the generator of iterencode to its end
Exhausted == encoded.k = "none" /\ gen.st \in {"done", "raise"}

\* what encode ends with on the value the generator was made for
EncodeOfTarget ==
    EncodeOf(heap, encoder, target, RecursionLimit(suite)).r

IsPrefix(a, b) == Len(a) <= Len(b) /\ SubSeq(b, 1, Len(a)) = a

\* C21: for every value and encoder on which encode succeeds, the chunks of
\* iterencode, pulled in order, are at every moment a prefix of the text
\* encode returns, the generator does not raise, and when it is exhausted
\* the chunks concatenate to exactly that text; a top-level string, which
\* encode escapes directly, included.
C21_StreamingEquivalence ==
    (encoded.k = "none" /\ gen.st # "none" /\ EncodeOfTarget.k = "ok") =>
        /\ gen.st # "raise"
        /\ IsPrefix(Join(stream), EncodeOfTarget.text)
        /\ gen.st = "done" => Join(stream) = EncodeOfTarget.text

\* the list ["\u00e9\"", 1.5] of two chunks or more has been pulled to the
\* end with an encoder that indents and does not ensure ASCII
C21_Witness ==
    /\ Exhausted
    /\ gen.st = "done"
    /\ target.t = "ref"
    /\ heap[target.id].t = "list"
    /\ Len(heap[target.id].items) = 2
    /\ ~encoder.ensure_ascii
    /\ encoder.indent # NoIndent
    /\ Len(stream) >= 2
    /\ Join(stream) = EncodeOfTarget.text

\* a top-level string has been pulled, in one chunk, from an encoder that
\* does not ensure ASCII
C21_WitnessString ==
    /\ Exhausted
    /\ gen.st = "done"
    /\ target.t = "str"
    /\ ~encoder.ensure_ascii
    /\ stream = <<<<QUOTE, 233, BSLASH, QUOTE, QUOTE>>>>

IsNonFinite(c) == c.t = "nonfinite"

\* object i has a real that is not finite among its items, values or keys;
\* "entered" leaves out the pairs under keys the encoder passes over
HasNonFinite(h, enc, i, mode) ==
    CASE h[i].t = "list" ->
           \E k \in 1..Len(h[i].items) : IsNonFinite(h[i].items[k])
      [] h[i].t = "dict" ->
           \E k \in 1..Len(h[i].items) :
               /\ mode = "held" \/ ~Dropped(enc, h[i].items[k][1])
               /\ IsNonFinite(h[i].items[k][1]) \/ IsNonFinite(h[i].items[k][2])
      [] OTHER -> FALSE

\* a real that is not finite occurs in the value c
NonFiniteIn(h, enc, c, mode) ==
    IF IsRef(c)
    THEN \E j \in Within(h, enc, {c.id}, mode) : HasNonFinite(h, enc, j, mode)
    ELSE IsNonFinite(c)

\* the encoder refuses something of the value c for another reason than a
\* real that is not finite: a key of another type, or a cycle
OtherwiseRefused(h, enc, c) ==
    /\ IsRef(c)
    /\ \E j \in Within(h, enc, {c.id}, "entered") :
          \/ HoldsItself(h, enc, j, "entered")
          \/ /\ h[j].t = "dict"
             /\ \E k \in 1..Len(h[j].items) :
                   h[j].items[k][1].t = "tuple" /\ ~enc.skipkeys

\* the literal of a scalar: NaN, Infinity and -Infinity for the reals that
\* are not finite
Literal(c) ==
    CASE c.t = "nonfinite" /\ c.v = "NaN" -> <<CH_N, CH_a, CH_N>>
      [] c.t = "nonfinite" /\ c.v = "Infinity" -> KW_Infinity
      [] c.t = "nonfinite" /\ c.v = "-Infinity" -> <<MINUS>> \o KW_Infinity
      [] c.t = "real" -> FLOAT_REPR(c)
      [] c.t = "str" -> c.v

\* the text of a value with no indent and the default separators: scalars
\* by their literal (a str between quotes), keys between quotes, the pairs
\* under keys that are tuples left out
RECURSIVE Plain(_, _)
RECURSIVE PlainItems(_, _, _, _)
Plain(h, c) ==
    IF c.t = "str" THEN <<QUOTE>> \o c.v \o <<QUOTE>>
    ELSE IF ~IsRef(c) THEN Literal(c)
    ELSE IF h[c.id].t = "list"
    THEN <<LBRACKET>> \o PlainItems(h, h[c.id], 1, TRUE) \o <<RBRACKET>>
    ELSE <<LBRACE>> \o PlainItems(h, h[c.id], 1, TRUE) \o <<RBRACE>>

PlainItems(h, o, i, first) ==
    IF i > Len(o.items) THEN <<>>
    ELSE IF o.t = "list"
    THEN (IF first THEN <<>> ELSE <<COMMA, SPACE>>)
         \o Plain(h, o.items[i]) \o PlainItems(h, o, i + 1, FALSE)
    ELSE IF o.items[i][1].t = "tuple" THEN PlainItems(h, o, i + 1, first)
    ELSE (IF first THEN <<>> ELSE <<COMMA, SPACE>>)
         \o <<QUOTE>> \o Literal(o.items[i][1]) \o <<QUOTE, COLON, SPACE>>
         \o Plain(h, o.items[i][2]) \o PlainItems(h, o, i + 1, FALSE)

\* encode on the same value by the encoder with allow_nan the other way
WithAllowNanFlipped ==
    EncodeOf(heap, [encoder EXCEPT !.allow_nan = ~@], target,
             RecursionLimit(suite)).r

\* C22 as stated: a real that is not finite anywhere in the value, as a
\* value or as a key, is emitted as its literal when allow_nan is on, and
\* makes encode raise the out-of-range ValueError when allow_nan is off.
C22_NonFiniteWhereverHeld ==
    (encoded.k # "none" /\ NonFiniteIn(heap, encoder, target, "held")) =>
        IF encoder.allow_nan
        THEN encoded.k = "ok" => encoded.text = Plain(heap, target)
        ELSE encoded.k = "err" /\ encoded.msg = E_NAN

\* C22: a real that is not finite, wherever the encoder gets to it as a
\* value or as a key (not under a key skipkeys passes over), is emitted as
\* NaN, Infinity or -Infinity when allow_nan is on, a key between quotes;
\* when allow_nan is off encode raises, with the out-of-range ValueError
\* unless a key of another type or a cycle is refused too, and that error
\* is raised for no other value.  A value in which the encoder gets to no
\* such real is encoded the same with allow_nan on and off.
C22_NonFinite ==
    encoded.k # "none" =>
        /\ (encoder.allow_nan /\ encoded.k = "ok")
              => encoded.text = Plain(heap, target)
        /\ encoder.allow_nan => ~(encoded.k = "err" /\ encoded.msg = E_NAN)
        /\ (~encoder.allow_nan /\ NonFiniteIn(heap, encoder, target, "entered"))
              => /\ encoded.k = "err"
                 /\ ~OtherwiseRefused(heap, encoder, target)
                       => encoded.msg = E_NAN
        /\ (encoded.k = "err" /\ encoded.msg = E_NAN)
              => NonFiniteIn(heap, encoder, target, "entered")
        /\ ~NonFiniteIn(heap, encoder, target, "entered")
              => WithAllowNanFlipped = encoded

\* [NaN, -Infinity] has been encoded with allow_nan on
C22_Witness ==
    /\ encoder.allow_nan
    /\ IsRef(target)
    /\ heap[target.id] = [t |-> "list",
                          items |-> <<VNonFinite("NaN"), VNonFinite("-Infinity")>>]
    /\ encoded.k = "ok"
    /\ encoded.text = <<LBRACKET>> \o KW_NaN \o <<COMMA, SPACE>>
                          \o KW_NegInfinity \o <<RBRACKET>>

\* a dict with the key -Infinity has been refused with allow_nan off
C22_WitnessKeyRefused ==
    /\ ~encoder.allow_nan
    /\ IsRef(target)
    /\ heap[target.id].t = "dict"
    /\ Len(heap[target.id].items) = 1
    /\ heap[target.id].items[1][1] = VNonFinite("-Infinity")
    /\ heap[target.id].items[1][2] = VReal(FALSE, 15, -1)
    /\ encoded.k = "err"
    /\ encoded.msg = E_NAN

\* {"NaN": Infinity} has been encoded with allow_nan on
C22_WitnessKey ==
    /\ encoder.allow_nan
    /\ IsRef(target)
    /\ heap[target.id].t = "dict"
    /\ encoded.k = "ok"
    /\ encoded.text = <<LBRACE, QUOTE>> \o KW_NaN \o <<QUOTE, COLON, SPACE>>
                          \o KW_Infinity \o <<RBRACE>>

\* a dict whose only pair, NaN under a tuple, skipkeys passes over has been
\* encoded as {} with allow_nan off
C22_WitnessDropped ==
    /\ ~encoder.allow_nan
    /\ encoder.skipkeys
    /\ IsRef(target)
    /\ heap[target.id].t = "dict"
    /\ NonFiniteIn(heap, encoder, target, "held")
    /\ encoded.k = "ok"
    /\ encoded.text = <<LBRACE, RBRACE>>

====
